---- MODULE Spec2Model ----
(***************************************************************************)
(* Model of the event package of Boundary: the current Eventer             *)
(* (internal/observability/event/eventer.go) and its older revision        *)
(* (unnamed/part_000): construction of the node/pipeline topology, the     *)
(* per-type write methods, FlushNodes, the process-wide sysEventer         *)
(* singleton (called in sequence and concurrently), the gate node in front *)
(* of audit and observation pipelines, Reopen running concurrently with    *)
(* sends, and the flags of the older Eventer under concurrent calls.       *)
(***************************************************************************)
EXTENDS Integers, Sequences, FiniteSets, TLC

VARIABLES
    input,        \* constructor under study and the configuration handed to it
    result,       \* what the constructor returned: (eventer, error) and the broker calls it issued
    eventer,      \* a constructed Eventer of eventer.go whose write methods are called
    oldEventer,   \* a constructed Eventer of the older revision (its conf flags are mutable)
    call,         \* the last method call: name, arguments, return value, broker.Send calls
    heap,         \* the Eventers allocated so far; a *Eventer is an index, nilRef is nil
    sysEventer,   \* the package variable sysEventer
    captured,     \* a reference a caller kept from SysEventer(), with the Eventer it saw
    lastInstalled, \* the Eventer the last successful InitSysEventer built or was given
    gate,         \* a gated filter: its buffers and what it has received and forwarded
    io,           \* a file sink under concurrent sends and reopens
    run           \* goroutines calling concurrently: where each stands, the lock, what they saw

vars == <<input, result, eventer, oldEventer, call, heap, sysEventer, captured, lastInstalled,
          gate, io, run>>

(***************************************************************************)
(* Bounds of the model.                                                    *)
(***************************************************************************)
MaxSinks == 2       \* longest sink list of a configuration
MaxFailAt == 7      \* injected failures hit the 1st..MaxFailAt-th fallible step
MaxEventers == 2    \* Eventers allocated in one run of the singleton model

(***************************************************************************)
(* Values.                                                                 *)
(***************************************************************************)
NoErr == "nil"                       \* a nil error
ErrInvalidParameter == "invalid parameter"
NilEventer == [nil |-> TRUE]         \* a nil *Eventer returned by a constructor
NoId == <<>>                         \* the zero eventlogger.NodeID

EveryType == "*"
ErrorType == "error"
AuditType == "audit"
ObservationType == "observation"
SystemType == "system"
InfoType == "info"

StderrSink == "stderr"
FileSink == "file"
JSONSinkFormat == "json"
Enforced == "enforced"
BestEffort == "best-effort"

auditPipeline == "audit-pipeline"
observationPipeline == "observation-pipeline"
errPipeline == "err-pipeline"
sysPipeline == "sys-pipeline"
AuditPipeline == "audit-pipeline"
InfoPipeline == "info-pipeline"
ErrPipeline == "err-pipeline"

(***************************************************************************)
(* Configurations.                                                         *)
(***************************************************************************)
\* SinkConfig (the rotation parameters are copied into the file sink node
\* and read nowhere else; they are left out)
SinkConfig(name, types, sinkType, path, fileName) ==
    [Name |-> name, EventTypes |-> types, SinkType |-> sinkType,
     Format |-> JSONSinkFormat, Path |-> path, FileName |-> fileName]

\* the zero SinkConfig (pipelines built without a sinkConfig field)
ZeroSinkConfig ==
    [Name |-> "", EventTypes |-> <<>>, SinkType |-> "", Format |-> "",
     Path |-> "", FileName |-> ""]

DefaultSink == SinkConfig("default", <<EveryType>>, StderrSink, "", "")

\* the sink the older NewEventer substitutes for an empty sink list
OldDefaultSink ==
    [Name |-> "default", EventTypes |-> <<EveryType>>, SinkType |-> "",
     Format |-> JSONSinkFormat, Path |-> "./", FileName |-> "foo.txt"]

\* EventerConfig.Validate: its rules are not part of the modelled sources;
\* its verdict is carried by the configuration.
Validate(c) == IF c.Valid THEN NoErr ELSE ErrInvalidParameter


(***************************************************************************)
(* Construction.  A construction threads a record st through its steps:    *)
(*   calls  the calls issued to the broker so far, in order                *)
(*   nid    how many ids newId has produced                                *)
(*   steps  how many fallible steps (newId or a broker call) have run      *)
(*   id     the id the last newId returned                                 *)
(*   err    the error the construction is returning, NoErr while it runs   *)
(*   failed the fallible step that failed (0: none)                        *)
(* failAt names the fallible step the environment makes fail (0: none).    *)
(* A step after an error is skipped: the code has returned.                *)
(***************************************************************************)
St0 == [calls |-> <<>>, nid |-> 0, steps |-> 0, id |-> NoId, err |-> NoErr, failed |-> 0]

\* newId(prefix): a fresh id carrying the prefix, or the error of the
\* randomness source
newId(st, prefix, failAt) ==
    IF st.err # NoErr THEN st
    ELSE IF st.steps + 1 = failAt
         THEN [st EXCEPT !.steps = @ + 1, !.err = "newId failed", !.failed = st.steps + 1]
         ELSE [st EXCEPT !.steps = @ + 1, !.nid = @ + 1, !.id = <<prefix, st.nid + 1>>]

\* a call to the broker; the failing call is issued and returns its error
BrokerCall(st, c, msg, failAt) ==
    IF st.err # NoErr THEN st
    ELSE IF st.steps + 1 = failAt
         THEN [st EXCEPT !.steps = @ + 1, !.calls = Append(@, [c EXCEPT !.ok = FALSE]),
                         !.err = msg, !.failed = st.steps + 1]
         ELSE [st EXCEPT !.steps = @ + 1, !.calls = Append(@, c)]

RegisterNode(id, node) == [op |-> "RegisterNode", id |-> id, node |-> node, ok |-> TRUE]

RegisterPipeline(t, pipeId, nodeIds) ==
    [op |-> "RegisterPipeline", EventType |-> t, PipelineID |-> pipeId,
     NodeIDs |-> nodeIds, ok |-> TRUE]

SetSuccessThreshold(t, n) ==
    [op |-> "SetSuccessThreshold", EventType |-> t, successThreshold |-> n, ok |-> TRUE]

\* the nodes handed to RegisterNode
JSONFormatter == [kind |-> "formatter"]
WriterSink(s) == [kind |-> "sink", target |-> StderrSink, Format |-> s.Format,
                  Path |-> "", FileName |-> ""]
FileSinkNode(s) == [kind |-> "sink", target |-> FileSink, Format |-> s.Format,
                    Path |-> s.Path, FileName |-> s.FileName]
\* the n-th gated.Filter the constructor allocates
GatedFilter(n) == [kind |-> "gate", n |-> n]

pipeline(t, fmtId, sinkId, gateId, sinkConfig) ==
    [eventType |-> t, fmtId |-> fmtId, sinkId |-> sinkId, gateId |-> gateId,
     sinkConfig |-> sinkConfig]

\* the switch over s.EventTypes: is a sink with these types added to type t?
RECURSIVE addTo(_, _, _)
addTo(types, i, t) ==
    IF i > Len(types) THEN FALSE
    ELSE \/ types[i] = EveryType
         \/ types[i] = t
         \/ addTo(types, i + 1, t)

AddIf(b, seq, x) == IF b THEN Append(seq, x) ELSE seq

\* SinkStep without the RegisterNode call for the sink: the sink id goes
\* into the pipelines unregistered
SinkStepUnregistered(acc, s, fmtId, failAt) ==
    LET isStderr == s.SinkType = StderrSink
        st1 == IF isStderr
               THEN newId(acc.st, "stderr", failAt)
               ELSE newId(acc.st, "file_" \o s.Path \o "_" \o s.FileName \o "_", failAt)
        sinkId == st1.id
    IN  IF st1.err # NoErr
        THEN [acc EXCEPT !.st = st1]
        ELSE [st |-> st1,
              allSinkFilenames |-> acc.allSinkFilenames,
              audit |-> AddIf(addTo(s.EventTypes, 1, AuditType), acc.audit,
                              pipeline(AuditType, fmtId, sinkId, NoId, s)),
              observation |-> AddIf(addTo(s.EventTypes, 1, ObservationType), acc.observation,
                              pipeline(ObservationType, fmtId, sinkId, NoId, s)),
              err |-> AddIf(addTo(s.EventTypes, 1, ErrorType), acc.err,
                              pipeline(ErrorType, fmtId, sinkId, NoId, s)),
              sys |-> AddIf(addTo(s.EventTypes, 1, SystemType), acc.sys,
                              pipeline(SystemType, fmtId, sinkId, NoId, ZeroSinkConfig))]

(***************************************************************************)
(* NewEventer of eventer.go: the loop over c.Sinks.  acc carries st, the   *)
(* map allSinkFilenames and the four pipeline lists.                       *)
(***************************************************************************)
SinkStep(acc, s, fmtId, failAt) ==
    LET isStderr == s.SinkType = StderrSink
        dup == ~isStderr /\ (s.Path \o s.FileName) \in acc.allSinkFilenames
        st1 == IF isStderr
               THEN newId(acc.st, "stderr", failAt)
               ELSE IF dup
                    THEN [acc.st EXCEPT !.err = "duplicate file sink"]
                    ELSE newId(acc.st, "file_" \o s.Path \o "_" \o s.FileName \o "_", failAt)
        sinkId == st1.id
        sinkNode == IF isStderr THEN WriterSink(s) ELSE FileSinkNode(s)
        st2 == BrokerCall(st1, RegisterNode(sinkId, sinkNode),
                          "failed to register sink node", failAt)
    IN  IF st2.err # NoErr
        THEN [acc EXCEPT !.st = st2]
        ELSE [st |-> st2,
              allSinkFilenames |-> acc.allSinkFilenames,
              audit |-> AddIf(addTo(s.EventTypes, 1, AuditType), acc.audit,
                              pipeline(AuditType, fmtId, sinkId, NoId, s)),
              observation |-> AddIf(addTo(s.EventTypes, 1, ObservationType), acc.observation,
                              pipeline(ObservationType, fmtId, sinkId, NoId, s)),
              err |-> AddIf(addTo(s.EventTypes, 1, ErrorType), acc.err,
                              pipeline(ErrorType, fmtId, sinkId, NoId, s)),
              sys |-> AddIf(addTo(s.EventTypes, 1, SystemType), acc.sys,
                              pipeline(SystemType, fmtId, sinkId, NoId, ZeroSinkConfig))]

RECURSIVE SinkLoop(_, _, _, _, _)
SinkLoop(acc, sinks, i, fmtId, failAt) ==
    IF i > Len(sinks) \/ acc.st.err # NoErr THEN acc
    ELSE SinkLoop(SinkStep(acc, sinks[i], fmtId, failAt), sinks, i + 1, fmtId, failAt)

\* GateStep registering the pipeline without its gate node
GateStepUngated(g, p, gatePrefix, pipePrefix, msg, failAt) ==
    LET node == GatedFilter(Len(g.flushableNodes) + 1)
        fl == Append(g.flushableNodes, node)
        st1 == newId(g.st, gatePrefix, failAt)
        gateId == st1.id
        st2 == BrokerCall(st1, RegisterNode(gateId, node),
                          "unable to register audit gated filter", failAt)
        st3 == newId(st2, pipePrefix, failAt)
        st4 == BrokerCall(st3, RegisterPipeline(p.eventType, st3.id, <<p.fmtId, p.sinkId>>),
                          msg, failAt)
    IN  [st |-> st4, flushableNodes |-> fl]

\* the loops over auditPipelines and observationPipelines: one gated filter
\* per pipeline, registered and put in front of formatter and sink.
\* g carries st and flushableNodes.
GateStep(g, p, gatePrefix, pipePrefix, msg, failAt) ==
    LET node == GatedFilter(Len(g.flushableNodes) + 1)
        fl == Append(g.flushableNodes, node)
        st1 == newId(g.st, gatePrefix, failAt)
        gateId == st1.id
        st2 == BrokerCall(st1, RegisterNode(gateId, node),
                          "unable to register audit gated filter", failAt)
        st3 == newId(st2, pipePrefix, failAt)
        st4 == BrokerCall(st3, RegisterPipeline(p.eventType, st3.id, <<gateId, p.fmtId, p.sinkId>>),
                          msg, failAt)
    IN  [st |-> st4, flushableNodes |-> fl]

RECURSIVE GateLoop(_, _, _, _, _, _, _)
GateLoop(g, ps, i, gatePrefix, pipePrefix, msg, failAt) ==
    IF i > Len(ps) \/ g.st.err # NoErr THEN g
    ELSE GateLoop(GateStep(g, ps[i], gatePrefix, pipePrefix, msg, failAt),
                  ps, i + 1, gatePrefix, pipePrefix, msg, failAt)

\* DirectStep without the return after a failed RegisterPipeline: the error
\* is dropped and the loop goes on
DirectStepNoReturn(d, p, pipePrefix, msg, failAt) ==
    LET st1 == newId(d.st, pipePrefix, failAt)
        st2 == BrokerCall(st1, RegisterPipeline(p.eventType, st1.id, <<p.fmtId, p.sinkId>>),
                          msg, failAt)
    IN  [st |-> [st2 EXCEPT !.err = st1.err], nodeIds |-> Append(d.nodeIds, p.sinkId)]

\* the loops over errPipelines and sysPipelines. d carries st and the
\* node id list (errNodeIds, sysNodeIds).
DirectStep(d, p, pipePrefix, msg, failAt) ==
    LET st1 == newId(d.st, pipePrefix, failAt)
        st2 == BrokerCall(st1, RegisterPipeline(p.eventType, st1.id, <<p.fmtId, p.sinkId>>),
                          msg, failAt)
    IN  IF st2.err # NoErr
        THEN [d EXCEPT !.st = st2]
        ELSE [st |-> st2, nodeIds |-> Append(d.nodeIds, p.sinkId)]

RECURSIVE DirectLoop(_, _, _, _, _, _)
DirectLoop(d, ps, i, pipePrefix, msg, failAt) ==
    IF i > Len(ps) \/ d.st.err # NoErr THEN d
    ELSE DirectLoop(DirectStep(d, ps[i], pipePrefix, msg, failAt),
                    ps, i + 1, pipePrefix, msg, failAt)

\* what a constructor returns: the Eventer (NilEventer on error) and the
\* error; with them the broker calls it issued, the number of fallible
\* steps it ran and the step that failed, as st holds them at the return
Failed(err, st) ==
    [e |-> NilEventer, err |-> err, calls |-> st.calls, steps |-> st.steps,
     failed |-> st.failed]
Built(e, st) ==
    [e |-> e, err |-> NoErr, calls |-> st.calls, steps |-> st.steps, failed |-> st.failed]


\* NewEventer making the enabled-without-sink checks after the pipeline
\* loops instead of before them
NewEventerChecksLate(log, serializationLock, c0, failAt) ==
    IF ~log THEN Failed(ErrInvalidParameter, St0)
    ELSE IF ~serializationLock THEN Failed(ErrInvalidParameter, St0)
    ELSE
    LET c == IF Len(c0.Sinks) = 0 THEN [c0 EXCEPT !.Sinks = Append(@, DefaultSink)] ELSE c0
    IN
    IF Validate(c) # NoErr THEN Failed(Validate(c), St0)
    ELSE
    LET stA == newId(St0, "json", failAt)
        jsonfmtId == stA.id
        stB == BrokerCall(stA, RegisterNode(jsonfmtId, JSONFormatter),
                          "failed to register json node", failAt)
        acc == SinkLoop([st |-> stB, allSinkFilenames |-> {}, audit |-> <<>>,
                         observation |-> <<>>, err |-> <<>>, sys |-> <<>>],
                        c.Sinks, 1, jsonfmtId, failAt)
    IN
    IF acc.st.err # NoErr THEN Failed(acc.st.err, acc.st)
    ELSE
    LET gA == GateLoop([st |-> acc.st, flushableNodes |-> <<>>], acc.audit, 1,
                       "gated-audit", auditPipeline,
                       "failed to register audit pipeline", failAt)
        gO == GateLoop(gA, acc.observation, 1,
                       "gated-observation", observationPipeline,
                       "failed to register observation pipeline", failAt)
        dE == DirectLoop([st |-> gO.st, nodeIds |-> <<>>], acc.err, 1,
                         errPipeline, "failed to register err pipeline", failAt)
        dS == DirectLoop([st |-> dE.st, nodeIds |-> <<>>], acc.sys, 1,
                         sysPipeline, "failed to register sys pipeline", failAt)
        errNodeIds == dE.nodeIds
        stT == BrokerCall(dS.st, SetSuccessThreshold(ErrorType, Len(errNodeIds)),
                          "failed to set success threshold for error events", failAt)
    IN
    IF stT.err # NoErr THEN Failed(stT.err, stT)
    ELSE IF c.AuditEnabled /\ Len(acc.audit) = 0
         THEN Failed(ErrInvalidParameter, stT)
    ELSE IF c.ObservationsEnabled /\ Len(acc.observation) = 0
         THEN Failed(ErrInvalidParameter, stT)
    ELSE IF c.SysEventsEnabled /\ Len(acc.sys) = 0
         THEN Failed(ErrInvalidParameter, stT)
    ELSE Built([nil |-> FALSE,
                broker |-> stT.calls,
                flushableNodes |-> gO.flushableNodes,
                conf |-> c,
                auditPipelines |-> acc.audit,
                observationPipelines |-> acc.observation,
                errPipelines |-> acc.err],
               stT)

(***************************************************************************)
(* NewEventer of eventer.go.  log and serializationLock are TRUE when      *)
(* supplied (non-nil).                                                     *)
(***************************************************************************)
NewEventer(log, serializationLock, c0, failAt) ==
    IF ~log THEN Failed(ErrInvalidParameter, St0)
    ELSE IF ~serializationLock THEN Failed(ErrInvalidParameter, St0)
    ELSE
    LET c == IF Len(c0.Sinks) = 0 THEN [c0 EXCEPT !.Sinks = Append(@, DefaultSink)] ELSE c0
    IN
    IF Validate(c) # NoErr THEN Failed(Validate(c), St0)
    ELSE
    LET stA == newId(St0, "json", failAt)
        jsonfmtId == stA.id
        stB == BrokerCall(stA, RegisterNode(jsonfmtId, JSONFormatter),
                          "failed to register json node", failAt)
        acc == SinkLoop([st |-> stB, allSinkFilenames |-> {}, audit |-> <<>>,
                         observation |-> <<>>, err |-> <<>>, sys |-> <<>>],
                        c.Sinks, 1, jsonfmtId, failAt)
    IN
    IF acc.st.err # NoErr THEN Failed(acc.st.err, acc.st)
    ELSE IF c.AuditEnabled /\ Len(acc.audit) = 0
         THEN Failed(ErrInvalidParameter, acc.st)
    ELSE IF c.ObservationsEnabled /\ Len(acc.observation) = 0
         THEN Failed(ErrInvalidParameter, acc.st)
    ELSE IF c.SysEventsEnabled /\ Len(acc.sys) = 0
         THEN Failed(ErrInvalidParameter, acc.st)
    ELSE
    LET gA == GateLoop([st |-> acc.st, flushableNodes |-> <<>>], acc.audit, 1,
                       "gated-audit", auditPipeline,
                       "failed to register audit pipeline", failAt)
        gO == GateLoop(gA, acc.observation, 1,
                       "gated-observation", observationPipeline,
                       "failed to register observation pipeline", failAt)
        dE == DirectLoop([st |-> gO.st, nodeIds |-> <<>>], acc.err, 1,
                         errPipeline, "failed to register err pipeline", failAt)
        dS == DirectLoop([st |-> dE.st, nodeIds |-> <<>>], acc.sys, 1,
                         sysPipeline, "failed to register sys pipeline", failAt)
        errNodeIds == dE.nodeIds
        stT == BrokerCall(dS.st, SetSuccessThreshold(ErrorType, Len(errNodeIds)),
                          "failed to set success threshold for error events", failAt)
    IN
    IF stT.err # NoErr THEN Failed(stT.err, stT)
    ELSE Built([nil |-> FALSE,
                broker |-> stT.calls,
                flushableNodes |-> gO.flushableNodes,
                conf |-> c,
                auditPipelines |-> acc.audit,
                observationPipelines |-> acc.observation,
                errPipelines |-> acc.err],
               stT)

(***************************************************************************)
(* NewEventer of the older revision: every sink is a file sink, and each   *)
(* event type gets one pipeline whose node list is the formatter followed  *)
(* by the sinks subscribed to the type.                                    *)
(***************************************************************************)
OldSinkStep(acc, s, failAt) ==
    LET st1 == newId(acc.st, "file_" \o s.Path \o "_" \o s.FileName \o "_", failAt)
        sinkID == st1.id
        st2 == BrokerCall(st1, RegisterNode(sinkID, FileSinkNode(s)),
                          "failed to register json node", failAt)
    IN  IF st2.err # NoErr
        THEN [acc EXCEPT !.st = st2]
        ELSE [st |-> st2,
              auditNodeIds |-> AddIf(addTo(s.EventTypes, 1, AuditType), acc.auditNodeIds, sinkID),
              infoNodeIds |-> AddIf(addTo(s.EventTypes, 1, InfoType), acc.infoNodeIds, sinkID),
              errNodeIds |-> AddIf(addTo(s.EventTypes, 1, ErrorType), acc.errNodeIds, sinkID)]

RECURSIVE OldSinkLoop(_, _, _, _)
OldSinkLoop(acc, sinks, i, failAt) ==
    IF i > Len(sinks) \/ acc.st.err # NoErr THEN acc
    ELSE OldSinkLoop(OldSinkStep(acc, sinks[i], failAt), sinks, i + 1, failAt)

OldNewEventer(log, c0, failAt) ==
    IF ~log THEN Failed(ErrInvalidParameter, St0)
    ELSE
    LET stA == newId(St0, "json", failAt)
        jsonfmtID == stA.id
        stB == BrokerCall(stA, RegisterNode(jsonfmtID, JSONFormatter),
                          "failed to register json node", failAt)
        c == IF Len(c0.Sinks) = 0 THEN [c0 EXCEPT !.Sinks = Append(@, OldDefaultSink)] ELSE c0
        acc == OldSinkLoop([st |-> stB, auditNodeIds |-> <<jsonfmtID>>,
                            infoNodeIds |-> <<jsonfmtID>>, errNodeIds |-> <<jsonfmtID>>],
                           c.Sinks, 1, failAt)
        stP1 == BrokerCall(acc.st, RegisterPipeline(AuditType, AuditPipeline, acc.auditNodeIds),
                           "failed to register audit pipeline", failAt)
        stP2 == BrokerCall(stP1, RegisterPipeline(InfoType, InfoPipeline, acc.infoNodeIds),
                           "failed to register info pipeline", failAt)
        stP3 == BrokerCall(stP2, RegisterPipeline(ErrorType, ErrPipeline, acc.errNodeIds),
                           "failed to register error pipeline", failAt)
        stT1 == IF c.AuditDelivery = Enforced
                THEN BrokerCall(stP3, SetSuccessThreshold(AuditType, Len(acc.auditNodeIds)),
                                "failed to set success threshold for audit events", failAt)
                ELSE stP3
        stT2 == IF c.InfoDelivery = Enforced
                THEN BrokerCall(stT1, SetSuccessThreshold(InfoType, Len(acc.infoNodeIds)),
                                "failed to set success threshold for info events", failAt)
                ELSE stT1
        stT3 == BrokerCall(stT2, SetSuccessThreshold(ErrorType, Len(acc.errNodeIds)),
                           "failed to set success threshold for error events", failAt)
    IN
    IF stT3.err # NoErr THEN Failed(stT3.err, stT3)
    ELSE Built([nil |-> FALSE, broker |-> stT3.calls, conf |-> c], stT3)


(***************************************************************************)
(* The configurations the model draws from.                                *)
(***************************************************************************)
\* EventTypes lists: the wildcard, single types, two types, a type listed
\* twice, a type listed together with the wildcard
TypeLists ==
    {<<EveryType>>, <<ErrorType>>, <<AuditType>>,
     <<ObservationType, SystemType>>, <<ErrorType, ErrorType>>, <<AuditType, EveryType>>}

OldTypeLists ==
    {<<>>, <<EveryType>>, <<ErrorType>>, <<AuditType>>, <<InfoType>>,
     <<ErrorType, ErrorType>>, <<AuditType, EveryType>>}

\* sink destinations: the console, and two files of one directory
SinkTargets ==
    {[SinkType |-> StderrSink, Path |-> "", FileName |-> ""],
     [SinkType |-> FileSink, Path |-> "p", FileName |-> "f"],
     [SinkType |-> FileSink, Path |-> "p", FileName |-> "g"]}

SinkConfigs ==
    {SinkConfig("s", t, k.SinkType, k.Path, k.FileName) : t \in TypeLists, k \in SinkTargets}

OldSinkConfigs ==
    {SinkConfig("s", t, k.SinkType, k.Path, k.FileName) :
        t \in OldTypeLists, k \in {x \in SinkTargets : x.SinkType = FileSink}}

SeqsUpTo(S, n) == UNION {[1..k -> S] : k \in 0..n}

Configs ==
    [AuditEnabled : BOOLEAN, ObservationsEnabled : BOOLEAN, SysEventsEnabled : BOOLEAN,
     Sinks : SeqsUpTo(SinkConfigs, MaxSinks), Valid : BOOLEAN]

OldConfigs ==
    [AuditDelivery : {Enforced, BestEffort}, InfoDelivery : {Enforced, BestEffort},
     AuditEnabled : BOOLEAN, InfoEnabled : BOOLEAN,
     Sinks : SeqsUpTo(OldSinkConfigs, MaxSinks)]

(***************************************************************************)
(* Values of the variables a specification does not use.                   *)
(***************************************************************************)
NoInput == [version |-> "none"]
NoResult == [called |-> FALSE]
NoCall == [op |-> "none"]
nilRef == 0
NothingCaptured == [ref |-> nilRef, e |-> NilEventer]
NilConfig == [nil |-> TRUE]      \* no WithEventerConfig option
NoGate == [nil |-> TRUE]
NoIo == [nil |-> TRUE]
NoRun == [nil |-> TRUE]

(***************************************************************************)
(* SpecConstruct: a constructor applied to a configuration.                *)
(***************************************************************************)
InitConstruct ==
    /\ input \in ([version : {"new"}, conf : Configs] \cup [version : {"old"}, conf : OldConfigs])
    /\ result = NoResult
    /\ eventer = NilEventer
    /\ oldEventer = NilEventer
    /\ call = NoCall
    /\ heap = <<>>
    /\ sysEventer = nilRef
    /\ captured = NothingCaptured
    /\ lastInstalled = nilRef
    /\ gate = NoGate
    /\ io = NoIo
    /\ run = NoRun

CallNewEventer ==
    /\ input.version = "new"
    /\ ~result.called
    /\ \E log \in BOOLEAN, serializationLock \in BOOLEAN, failAt \in 0..MaxFailAt :
          result' = [called |-> TRUE,
                     ret |-> NewEventer(log, serializationLock, input.conf, failAt)]
    /\ UNCHANGED <<input, eventer, oldEventer, call, heap, sysEventer, captured, lastInstalled, gate, io, run>>

CallOldNewEventer ==
    /\ input.version = "old"
    /\ ~result.called
    /\ \E log \in BOOLEAN, failAt \in 0..MaxFailAt :
          result' = [called |-> TRUE, ret |-> OldNewEventer(log, input.conf, failAt)]
    /\ UNCHANGED <<input, eventer, oldEventer, call, heap, sysEventer, captured, lastInstalled, gate, io, run>>

NextConstruct == CallNewEventer \/ CallOldNewEventer

SpecConstruct == InitConstruct /\ [][NextConstruct]_vars


(***************************************************************************)
(* Reading a constructor's result.                                         *)
(***************************************************************************)
Succeeded == result.called /\ result.ret.err = NoErr
IsNew == input.version = "new"
IsOld == input.version = "old"

\* the sink list the constructor worked on (after defaulting)
BuiltSinks == result.ret.e.conf.Sinks

\* the calls of one kind the broker accepted
RegisteredPipelines(calls) == SelectSeq(calls, LAMBDA c : c.op = "RegisterPipeline" /\ c.ok)
RegisteredSinks(calls) ==
    SelectSeq(calls, LAMBDA c : c.op = "RegisterNode" /\ c.ok /\ c.node.kind = "sink")
ThresholdCalls(calls, t) ==
    SelectSeq(calls, LAMBDA c : c.op = "SetSuccessThreshold" /\ c.ok /\ c.EventType = t)

\* the node id under which the i-th configured sink was registered
SinkNodeId(calls, i) == RegisteredSinks(calls)[i].id

\* a sink configuration subscribes to type t: it lists t or the wildcard
Subscribes(s, t) == \E j \in 1..Len(s.EventTypes) : s.EventTypes[j] \in {t, EveryType}
SubscribedSinks(sinks, t) == {i \in 1..Len(sinks) : Subscribes(sinks[i], t)}

\* the registered pipelines of type t whose last node is the i-th sink
PipelinesEndingIn(calls, t, i) ==
    {k \in 1..Len(RegisteredPipelines(calls)) :
        LET p == RegisteredPipelines(calls)[k]
        IN  /\ p.EventType = t
            /\ p.NodeIDs[Len(p.NodeIDs)] = SinkNodeId(calls, i)}

\* two file sinks of the list share Path and FileName
DuplicateFileSinks(sinks) ==
    \E i, j \in 1..Len(sinks) :
        /\ i < j
        /\ sinks[i].SinkType = FileSink /\ sinks[j].SinkType = FileSink
        /\ sinks[i].Path = sinks[j].Path
        /\ sinks[i].FileName = sinks[j].FileName

(***************************************************************************)
(* C1: NewEventer fails whenever the configuration holds two file sinks    *)
(* with the same Path and FileName, wherever they stand in the list, and   *)
(* it reports a duplicate file sink only for such a configuration (two     *)
(* file sinks of one Path with different FileNames are accepted).          *)
(***************************************************************************)
C1_DuplicateFileSinkFails ==
    (IsNew /\ result.called) =>
        /\ DuplicateFileSinks(input.conf.Sinks) =>
              (result.ret.err # NoErr /\ result.ret.e = NilEventer)
        /\ result.ret.err = "duplicate file sink" => DuplicateFileSinks(input.conf.Sinks)

(***************************************************************************)
(* C2: whenever a NewEventer (of either revision) succeeds, the success    *)
(* threshold it set for the Error type is the number of sinks subscribed   *)
(* to Error, directly or through EveryType; the formatter is not counted.  *)
(***************************************************************************)
C2_ErrorThresholdIsSinkCount ==
    Succeeded =>
        /\ Len(ThresholdCalls(result.ret.calls, ErrorType)) = 1
        /\ ThresholdCalls(result.ret.calls, ErrorType)[1].successThreshold
              = Cardinality(SubscribedSinks(BuiltSinks, ErrorType))

(***************************************************************************)
(* C10: after a successful NewEventer (of either revision), for every      *)
(* configured sink and every event type of that revision, exactly one      *)
(* registered pipeline of the type ends in the sink's node if the sink     *)
(* subscribes to the type (by name or by EveryType), and none otherwise.   *)
(***************************************************************************)
TypesOf(version) ==
    IF version = "new" THEN {AuditType, ObservationType, ErrorType, SystemType}
    ELSE {AuditType, InfoType, ErrorType}

C10_OnePipelinePerSinkAndType ==
    Succeeded =>
        \A i \in 1..Len(BuiltSinks) : \A t \in TypesOf(input.version) :
            Cardinality(PipelinesEndingIn(result.ret.calls, t, i))
                = IF Subscribes(BuiltSinks[i], t) THEN 1 ELSE 0


\* the ids under which nodes of one kind were registered
NodeIdsOfKind(calls, kind) ==
    {calls[i].id : i \in {j \in 1..Len(calls) :
        calls[j].op = "RegisterNode" /\ calls[j].ok /\ calls[j].node.kind = kind}}

\* the registered pipelines of type t
PipelinesFor(calls, t) ==
    {k \in 1..Len(RegisteredPipelines(calls)) : RegisteredPipelines(calls)[k].EventType = t}

(***************************************************************************)
(* C11: every pipeline NewEventer of eventer.go registers has one of two   *)
(* shapes.  An Audit or Observation pipeline is <<gate, formatter, sink>>  *)
(* and its gate node is in no other pipeline; an Error or System pipeline  *)
(* is <<formatter, sink>>; the formatter id is the same in all pipelines.  *)
(***************************************************************************)
C11_PipelineShapes ==
    (IsNew /\ result.called) =>
        LET ps == RegisteredPipelines(result.ret.calls)
            gates == NodeIdsOfKind(result.ret.calls, "gate")
            fmts == NodeIdsOfKind(result.ret.calls, "formatter")
            sinks == NodeIdsOfKind(result.ret.calls, "sink")
        IN  \A k \in 1..Len(ps) :
               /\ ps[k].EventType \in {AuditType, ObservationType, ErrorType, SystemType}
               /\ ps[k].EventType \in {AuditType, ObservationType} =>
                     /\ Len(ps[k].NodeIDs) = 3
                     /\ ps[k].NodeIDs[1] \in gates
                     /\ ps[k].NodeIDs[2] \in fmts
                     /\ ps[k].NodeIDs[3] \in sinks
                     /\ \A j \in 1..Len(ps) : \A n \in 1..Len(ps[j].NodeIDs) :
                           ps[j].NodeIDs[n] = ps[k].NodeIDs[1] => (j = k /\ n = 1)
               /\ ps[k].EventType \in {ErrorType, SystemType} =>
                     /\ Len(ps[k].NodeIDs) = 2
                     /\ ps[k].NodeIDs[1] \in fmts
                     /\ ps[k].NodeIDs[2] \in sinks
               /\ \A j \in 1..Len(ps) :
                     ps[j].NodeIDs[Len(ps[j].NodeIDs) - 1] = ps[k].NodeIDs[Len(ps[k].NodeIDs) - 1]

\* a construction succeeded with two audit pipelines, an observation
\* pipeline and an error pipeline
C11_Witness ==
    /\ IsNew /\ Succeeded
    /\ Cardinality(PipelinesFor(result.ret.calls, AuditType)) = 2
    /\ Cardinality(PipelinesFor(result.ret.calls, ObservationType)) >= 1
    /\ Cardinality(PipelinesFor(result.ret.calls, ErrorType)) >= 1


(***************************************************************************)
(* C13: a NewEventer (of either revision) given an empty sink list builds  *)
(* the topology from exactly one console (stderr) sink subscribed to every *)
(* event type, never from a file sink; a non-empty sink list is used as    *)
(* given.                                                                  *)
(***************************************************************************)
C13_DefaultIsOneConsoleSink ==
    Succeeded =>
        /\ Len(input.conf.Sinks) = 0 =>
              /\ Len(BuiltSinks) = 1
              /\ BuiltSinks[1].SinkType = StderrSink
              /\ BuiltSinks[1].EventTypes = <<EveryType>>
              /\ Len(RegisteredSinks(result.ret.calls)) = 1
              /\ RegisteredSinks(result.ret.calls)[1].node.target = StderrSink
        /\ Len(input.conf.Sinks) > 0 => BuiltSinks = input.conf.Sinks


(***************************************************************************)
(* C14: when a step of NewEventer of eventer.go fails (validation, newId,  *)
(* RegisterNode, RegisterPipeline, SetSuccessThreshold), NewEventer        *)
(* returns a nil Eventer with the error and runs no step after the failing *)
(* one, so no further call reaches the broker; a non-nil Eventer is        *)
(* returned only when every broker call succeeded, the last of them the    *)
(* SetSuccessThreshold for the Error type.                                 *)
(***************************************************************************)
C14_FailureAbortsConstruction ==
    (IsNew /\ result.called) =>
        LET r == result.ret
        IN  /\ (r.e = NilEventer) <=> (r.err # NoErr)
            /\ r.failed # 0 =>
                  /\ r.e = NilEventer
                  /\ r.steps = r.failed
            /\ \A i \in 1..Len(r.calls) :
                  ~r.calls[i].ok => (i = Len(r.calls) /\ r.failed # 0)
            /\ ~input.conf.Valid => (r.e = NilEventer /\ r.calls = <<>>)
            /\ r.e # NilEventer =>
                  /\ r.failed = 0
                  /\ \A i \in 1..Len(r.calls) : r.calls[i].ok
                  /\ Len(r.calls) > 0
                  /\ r.calls[Len(r.calls)].op = "SetSuccessThreshold"
                  /\ r.calls[Len(r.calls)].EventType = ErrorType

\* a construction registered its nodes and a pipeline and then failed in
\* SetSuccessThreshold
C14_Witness ==
    /\ IsNew /\ result.called
    /\ result.ret.e = NilEventer
    /\ result.ret.failed # 0
    /\ Len(RegisteredPipelines(result.ret.calls)) >= 1
    /\ result.ret.calls[Len(result.ret.calls)].op = "SetSuccessThreshold"
    /\ ~result.ret.calls[Len(result.ret.calls)].ok


(***************************************************************************)
(* C22: in the sequence of broker calls a NewEventer (of either revision)  *)
(* issues, every node id a RegisterPipeline call names was registered by   *)
(* an earlier, accepted RegisterNode call, and no RegisterPipeline for the *)
(* Error type follows the SetSuccessThreshold call for the Error type.     *)
(***************************************************************************)
C22_NodesRegisteredBeforePipelines ==
    result.called =>
        LET cs == result.ret.calls
        IN  /\ \A k \in 1..Len(cs) :
                  cs[k].op = "RegisterPipeline" =>
                     \A n \in 1..Len(cs[k].NodeIDs) :
                        \E j \in 1..(k - 1) :
                           /\ cs[j].op = "RegisterNode"
                           /\ cs[j].ok
                           /\ cs[j].id = cs[k].NodeIDs[n]
            /\ \A k \in 1..Len(cs) :
                  (cs[k].op = "SetSuccessThreshold" /\ cs[k].EventType = ErrorType) =>
                     \A j \in (k + 1)..Len(cs) :
                        ~(cs[j].op = "RegisterPipeline" /\ cs[j].EventType = ErrorType)

\* a construction of eventer.go registered a gated pipeline and an Error
\* pipeline and then set the Error threshold
C22_Witness ==
    /\ IsNew /\ Succeeded
    /\ \E k \in 1..Len(result.ret.calls) :
          /\ result.ret.calls[k].op = "RegisterPipeline"
          /\ Len(result.ret.calls[k].NodeIDs) = 3
    /\ Cardinality(PipelinesFor(result.ret.calls, ErrorType)) >= 1
    /\ Len(ThresholdCalls(result.ret.calls, ErrorType)) = 1


\* the sink list NewEventer of eventer.go works on: an empty list is
\* replaced by the default sink before anything else looks at it
SinksUsed == IF Len(input.conf.Sinks) = 0 THEN <<DefaultSink>> ELSE input.conf.Sinks

\* a type is enabled and no sink of the list subscribes to it
EnabledWithoutSink ==
    \/ input.conf.AuditEnabled /\ SubscribedSinks(SinksUsed, AuditType) = {}
    \/ input.conf.ObservationsEnabled /\ SubscribedSinks(SinksUsed, ObservationType) = {}
    \/ input.conf.SysEventsEnabled /\ SubscribedSinks(SinksUsed, SystemType) = {}

(***************************************************************************)
(* C24: NewEventer of eventer.go fails whenever Audit, Observations or     *)
(* SysEvents is enabled and no sink of the list it works on subscribes to  *)
(* that type by name or through EveryType (an empty list is the default    *)
(* sink, which subscribes to every type); unless an earlier step failed,   *)
(* the error is the invalid-parameter error; and the broker has then       *)
(* received nothing but RegisterNode calls for the formatter and the       *)
(* sinks: no gate and no pipeline.                                         *)
(***************************************************************************)
C24_EnabledTypeNeedsSink ==
    (IsNew /\ result.called /\ EnabledWithoutSink) =>
        LET r == result.ret
        IN  /\ r.e = NilEventer
            /\ r.err # NoErr
            /\ r.failed = 0 => r.err = ErrInvalidParameter
            /\ \A i \in 1..Len(r.calls) :
                  /\ r.calls[i].op = "RegisterNode"
                  /\ r.calls[i].node.kind \in {"formatter", "sink"}

\* a valid configuration with SysEvents enabled, an audit sink and no
\* system sink was refused after the formatter and the sink were registered
C24_Witness ==
    /\ IsNew /\ result.called
    /\ input.conf.Valid
    /\ input.conf.SysEventsEnabled
    /\ ~input.conf.AuditEnabled /\ ~input.conf.ObservationsEnabled
    /\ SubscribedSinks(SinksUsed, SystemType) = {}
    /\ SubscribedSinks(SinksUsed, AuditType) # {}
    /\ result.ret.failed = 0
    /\ result.ret.err = ErrInvalidParameter
    /\ Len(result.ret.calls) = 1 + Len(input.conf.Sinks)


(***************************************************************************)
(* The broker at send time.  b is the list of calls the broker accepted    *)
(* during construction.                                                    *)
(***************************************************************************)
stdRetryCount == 3

PipelinesOfType(b, t) == SelectSeq(RegisteredPipelines(b), LAMBDA p : p.EventType = t)

\* the ids registered as sink nodes
SinkIds(b) == {RegisteredSinks(b)[i].id : i \in 1..Len(RegisteredSinks(b))}

\* the sinks reachable by the pipelines of type t
SinksOfType(b, t) ==
    {id \in SinkIds(b) :
        \E k \in 1..Len(PipelinesOfType(b, t)) :
            \E j \in 1..Len(PipelinesOfType(b, t)[k].NodeIDs) :
                PipelinesOfType(b, t)[k].NodeIDs[j] = id}

\* the success threshold in force for type t (0 when none was set)
Threshold(b, t) ==
    IF Len(ThresholdCalls(b, t)) = 0 THEN 0
    ELSE ThresholdCalls(b, t)[Len(ThresholdCalls(b, t))].successThreshold

\* in the set of what fails during an attempt: the broker itself fails the
\* send, whatever its sinks do (a broker substituted through the broker
\* interface to exercise the retries)
Unavailable == <<"broker", 0>>

\* broker.Send(ctx, t, payload) when the sinks in down fail their write:
\* a type without pipeline is a configuration error; otherwise the sinks
\* that accepted the event are counted against the threshold
Send(b, t, down) ==
    IF Len(PipelinesOfType(b, t)) = 0
    THEN [t |-> t, err |-> "no pipeline"]
    ELSE IF Unavailable \in down
         THEN [t |-> t, err |-> "unavailable"]
    ELSE IF Cardinality(SinksOfType(b, t) \ down) < Threshold(b, t)
         THEN [t |-> t, err |-> "threshold"]
         ELSE [t |-> t, err |-> NoErr]

\* the failures of a send the retry wrapper takes for transient: a sink
\* that did not take the event, so that the threshold was missed, or a
\* broker that could not be reached; a type without pipeline is a defect of
\* the configuration
Transient(err) == err \in {"threshold", "unavailable"}

\* A context, as the retry wrapper sees it: Background is never cancelled;
\* the context k > 0 is found cancelled (or past its deadline) during the
\* wait that follows the k-th attempt.
Background == 0
Contexts == 0..(stdRetryCount - 1)
ErrCanceled == "context canceled"

\* what a call that has not returned yet shows in place of its error
NotReturned == "not returned"

\* retrySend(ctx, maxAttempts, backoff, sendFn) for a sendFn that calls
\* broker.Send(ctx, t, payload); downs[i] is what fails during the i-th
\* attempt.  Stops at the first success; returns a failure that is not
\* transient at once; gives up after maxAttempts with the last error;
\* otherwise waits for its backoff before the next attempt, and returns the
\* context's error when the context is cancelled during the wait.  The
\* goroutine is suspended during each wait: waits is the number of waits
\* that are over, and the value describes the call when it has returned or
\* has begun the wait after these (err is then NotReturned): the error
\* returned and the Send calls made so far.
RECURSIVE retryFrom(_, _, _, _, _, _, _, _)
retryFrom(ctx, maxAttempts, b, t, downs, waits, i, done) ==
    IF Send(b, t, downs[i]).err = NoErr
    THEN [err |-> NoErr, sends |-> Append(done, Send(b, t, downs[i]))]
    ELSE IF ~Transient(Send(b, t, downs[i]).err) \/ i >= maxAttempts
         THEN [err |-> Send(b, t, downs[i]).err, sends |-> Append(done, Send(b, t, downs[i]))]
    ELSE IF i > waits
         THEN [err |-> NotReturned, sends |-> Append(done, Send(b, t, downs[i]))]
    ELSE IF ctx = i
         THEN [err |-> ErrCanceled, sends |-> Append(done, Send(b, t, downs[i]))]
         ELSE retryFrom(ctx, maxAttempts, b, t, downs, waits, i + 1,
                        Append(done, Send(b, t, downs[i])))

retrySend(ctx, maxAttempts, b, t, downs, waits) ==
    IF maxAttempts < 1 THEN [err |-> NoErr, sends |-> <<>>]
    ELSE retryFrom(ctx, maxAttempts, b, t, downs, waits, 1, <<>>)

(***************************************************************************)
(* C20: a successful NewEventer of the older revision given Enforced       *)
(* delivery for Audit (for Info) sets that type's success threshold once,  *)
(* to the number of sinks subscribed to the type, which does not exceed    *)
(* the number of sinks the type's pipelines reach; given best-effort       *)
(* delivery it sets no threshold for the type.                             *)
(***************************************************************************)
C20_EnforcedThresholdIsSinkCount ==
    (IsOld /\ Succeeded) =>
        \A x \in {<<AuditType, input.conf.AuditDelivery>>, <<InfoType, input.conf.InfoDelivery>>} :
            LET set == ThresholdCalls(result.ret.calls, x[1])
            IN  /\ x[2] = Enforced =>
                      /\ Len(set) = 1
                      /\ set[1].successThreshold
                            = Cardinality(SubscribedSinks(BuiltSinks, x[1]))
                      /\ set[1].successThreshold
                            <= Cardinality(SinksOfType(result.ret.calls, x[1]))
                /\ x[2] # Enforced => Len(set) = 0

(***************************************************************************)
(* C25: every Eventer NewEventer of eventer.go returns has a registered    *)
(* pipeline for each type whose write method can reach the broker: Error   *)
(* and System always (writeError and writeSysEvent read no flag), Audit    *)
(* and Observation when enabled; its Error pipelines reach a sink and the  *)
(* Error success threshold is at least 1.                                  *)
(***************************************************************************)
C25_ReachableTypesHavePipelines ==
    (IsNew /\ Succeeded) =>
        LET b == result.ret.e.broker
            c == result.ret.e.conf
        IN  /\ Len(PipelinesOfType(b, ErrorType)) >= 1
            /\ SinksOfType(b, ErrorType) # {}
            /\ Threshold(b, ErrorType) >= 1
            /\ Len(PipelinesOfType(b, SystemType)) >= 1
            /\ c.AuditEnabled => Len(PipelinesOfType(b, AuditType)) >= 1
            /\ c.ObservationsEnabled => Len(PipelinesOfType(b, ObservationType)) >= 1


(***************************************************************************)
(* Events.  A nil event pointer is NilEvent.  An observation carries the   *)
(* maps Header and Detail (NilMap when nil) and the fields stamped into    *)
(* them; a map is the set of its key/value pairs.                          *)
(***************************************************************************)
NilEvent == [nil |-> TRUE]
SomeEvent == [nil |-> FALSE]
NilMap == [nil |-> TRUE]
Map(kv) == [nil |-> FALSE, kv |-> kv]

OpField == "op"
RequestInfoField == "request_info"
VersionField == "version"

\* m[k] = v on a non-nil map
MapSet(m, k, v) == Map({x \in m.kv : x[1] # k} \cup {<<k, v>>})

Observation(header, detail) ==
    [nil |-> FALSE, Header |-> header, Detail |-> detail,
     RequestInfo |-> "ri", Version |-> "v1", Op |-> "op1"]

\* the assignments the send closure of writeObservation makes
Stamp(event) ==
    LET h == IF event.Header # NilMap
             THEN MapSet(MapSet(event.Header, RequestInfoField, event.RequestInfo),
                         VersionField, event.Version)
             ELSE event.Header
        d == IF event.Detail # NilMap
             THEN MapSet(event.Detail, OpField, event.Op)
             ELSE event.Detail
    IN  [event EXCEPT !.Header = h, !.Detail = d]

(***************************************************************************)
(* The write methods of eventer.go.  ctx is the context of the call,       *)
(* downs[i] is the set of sinks that fail during the i-th attempt, waits   *)
(* the number of waits of retrySend that are over: a method runs until it  *)
(* returns or until retrySend begins its next wait.  The value is the      *)
(* error returned (NotReturned during a wait), the broker.Send calls made  *)
(* so far, and the event as these leave it.                                *)
(***************************************************************************)
Returned(err, sends, event) == [ret |-> err, sends |-> sends, event |-> event]

\* fmt.Errorf("%s: %w", op, err): the error a write method returns for
\* the error err of retrySend; it holds err as its cause
Wrap(err) ==
    CASE err = "threshold" -> "send failed: threshold"
      [] err = "unavailable" -> "send failed: unavailable"
      [] err = "no pipeline" -> "send failed: no pipeline"
      [] err = ErrCanceled -> "send failed: context canceled"

\* the error a write method returns for the outcome r of retrySend; a
\* method still inside retrySend has returned nothing
Wrapped(r) ==
    IF r.err = NoErr THEN NoErr
    ELSE IF r.err = NotReturned THEN NotReturned
    ELSE Wrap(r.err)

\* the event after n runs of the send closure of writeObservation
RECURSIVE StampN(_, _)
StampN(event, n) == IF n = 0 THEN event ELSE Stamp(StampN(event, n - 1))

\* event.Payload as broker.Send receives it: it holds the maps Header and
\* Detail themselves, so it shows what has been stamped into them so far
Payload(event) == [Header |-> event.Header, Detail |-> event.Detail]

\* what writeObservation returns: as Returned, and the payload each
\* broker.Send call was handed
ReturnedObservation(err, sends, event, payloads) ==
    [ret |-> err, sends |-> sends, event |-> event, payloads |-> payloads]

\* writeObservation stamping the event on entry, before it looks at the
\* enabled flag, instead of inside the send closure
writeObservationStampsEarly(ctx, e, event, downs, waits) ==
    IF event = NilEvent THEN ReturnedObservation(ErrInvalidParameter, <<>>, event, <<>>)
    ELSE IF ~e.conf.ObservationsEnabled
         THEN ReturnedObservation(NoErr, <<>>, Stamp(event), <<>>)
    ELSE LET r == retrySend(ctx, stdRetryCount, e.broker, ObservationType, downs, waits)
         IN  ReturnedObservation(Wrapped(r), r.sends, Stamp(event),
                                 [i \in 1..Len(r.sends) |-> Payload(Stamp(event))])

\* writeObservation: every attempt of retrySend runs the closure, which
\* stamps the event and then calls broker.Send with its payload
writeObservation(ctx, e, event, downs, waits) ==
    IF event = NilEvent THEN ReturnedObservation(ErrInvalidParameter, <<>>, event, <<>>)
    ELSE IF ~e.conf.ObservationsEnabled THEN ReturnedObservation(NoErr, <<>>, event, <<>>)
    ELSE LET r == retrySend(ctx, stdRetryCount, e.broker, ObservationType, downs, waits)
         IN  ReturnedObservation(Wrapped(r), r.sends, StampN(event, Len(r.sends)),
                                 [i \in 1..Len(r.sends) |-> Payload(StampN(event, i))])

\* writeError gated like writeObservation (a flag check pasted along)
writeErrorGated(ctx, e, event, downs, waits) ==
    IF event = NilEvent THEN Returned(ErrInvalidParameter, <<>>, event)
    ELSE IF ~e.conf.ObservationsEnabled THEN Returned(NoErr, <<>>, event)
    ELSE LET r == retrySend(ctx, stdRetryCount, e.broker, ErrorType, downs, waits)
         IN  Returned(Wrapped(r), r.sends, event)

\* writeError allowing the retry wrapper a single attempt
writeErrorOneAttempt(ctx, e, event, downs, waits) ==
    IF event = NilEvent THEN Returned(ErrInvalidParameter, <<>>, event)
    ELSE LET r == retrySend(ctx, 1, e.broker, ErrorType, downs, waits)
         IN  Returned(Wrapped(r), r.sends, event)

\* writeError logging a failed send and returning nil all the same
writeErrorSwallowed(ctx, e, event, downs, waits) ==
    IF event = NilEvent THEN Returned(ErrInvalidParameter, <<>>, event)
    ELSE LET r == retrySend(ctx, stdRetryCount, e.broker, ErrorType, downs, waits)
         IN  Returned(NoErr, r.sends, event)

writeError(ctx, e, event, downs, waits) ==
    IF event = NilEvent THEN Returned(ErrInvalidParameter, <<>>, event)
    ELSE LET r == retrySend(ctx, stdRetryCount, e.broker, ErrorType, downs, waits)
         IN  Returned(Wrapped(r), r.sends, event)

writeSysEvent(ctx, e, event, downs, waits) ==
    IF event = NilEvent THEN Returned(ErrInvalidParameter, <<>>, event)
    ELSE LET r == retrySend(ctx, stdRetryCount, e.broker, SystemType, downs, waits)
         IN  Returned(Wrapped(r), r.sends, event)

\* writeAudit without its enabled check
writeAuditUngated(ctx, e, event, downs, waits) ==
    IF event = NilEvent THEN Returned(ErrInvalidParameter, <<>>, event)
    ELSE LET r == retrySend(ctx, stdRetryCount, e.broker, AuditType, downs, waits)
         IN  Returned(Wrapped(r), r.sends, event)

\* writeAudit testing the enabled flag before the nil event
writeAuditFlagFirst(ctx, e, event, downs, waits) ==
    IF ~e.conf.AuditEnabled THEN Returned(NoErr, <<>>, event)
    ELSE IF event = NilEvent THEN Returned(ErrInvalidParameter, <<>>, event)
    ELSE LET r == retrySend(ctx, stdRetryCount, e.broker, AuditType, downs, waits)
         IN  Returned(Wrapped(r), r.sends, event)

writeAudit(ctx, e, event, downs, waits) ==
    IF event = NilEvent THEN Returned(ErrInvalidParameter, <<>>, event)
    ELSE IF ~e.conf.AuditEnabled THEN Returned(NoErr, <<>>, event)
    ELSE LET r == retrySend(ctx, stdRetryCount, e.broker, AuditType, downs, waits)
         IN  Returned(Wrapped(r), r.sends, event)

(***************************************************************************)
(* FlushNodes: the loop over e.flushableNodes.  failing is the set of      *)
(* positions whose FlushAll returns an error.  The value is the error      *)
(* returned (naming the node that failed) and the nodes whose FlushAll was  *)
(* called, in order.                                                       *)
(***************************************************************************)
FlushAllErr(i) == <<"FlushAll failed", i>>

RECURSIVE FlushFrom(_, _, _, _)
FlushFrom(nodes, failing, i, flushed) ==
    IF i > Len(nodes) THEN [ret |-> NoErr, flushed |-> flushed]
    ELSE IF i \in failing
         THEN [ret |-> FlushAllErr(i), flushed |-> Append(flushed, nodes[i])]
         ELSE FlushFrom(nodes, failing, i + 1, Append(flushed, nodes[i]))

FlushNodes(e, failing) == FlushFrom(e.flushableNodes, failing, 1, <<>>)

(***************************************************************************)
(* The methods of the older Eventer: one broker.Send, no retry, no nil     *)
(* check.                                                                  *)
(***************************************************************************)
OldWrapped(s) == IF s.err = NoErr THEN NoErr ELSE "send failed"

Info(e, event, down) ==
    IF ~e.conf.InfoEnabled THEN Returned(NoErr, <<>>, event)
    ELSE LET s == Send(e.broker, InfoType, down)
         IN  Returned(OldWrapped(s), <<s>>, event)

Error(e, event, down) ==
    LET s == Send(e.broker, ErrorType, down)
    IN  Returned(OldWrapped(s), <<s>>, event)

Audit(e, event, down) ==
    IF ~e.conf.AuditEnabled THEN Returned(NoErr, <<>>, event)
    ELSE LET s == Send(e.broker, InfoType, down)
         IN  Returned(OldWrapped(s), <<s>>, event)

SetAuditEnabled(e, enabled) == [e EXCEPT !.conf.AuditEnabled = enabled]
SetInfoEnabled(e, enabled) == [e EXCEPT !.conf.InfoEnabled = enabled]


(***************************************************************************)
(* Spec: the write methods called on a constructed Eventer, of eventer.go  *)
(* or of the older revision.                                               *)
(***************************************************************************)
WriteSinkLists ==
    {<<>>,
     <<SinkConfig("s", <<EveryType>>, StderrSink, "", "")>>,
     <<SinkConfig("s", <<ErrorType>>, StderrSink, "", "")>>,
     <<SinkConfig("s", <<ErrorType>>, FileSink, "p", "f"),
       SinkConfig("s", <<EveryType>>, StderrSink, "", "")>>,
     <<SinkConfig("s", <<AuditType, ObservationType>>, FileSink, "p", "f"),
       SinkConfig("s", <<ErrorType, SystemType>>, FileSink, "p", "g")>>}

WriteConfigs ==
    [AuditEnabled : BOOLEAN, ObservationsEnabled : BOOLEAN, SysEventsEnabled : BOOLEAN,
     Sinks : WriteSinkLists, Valid : {TRUE}]

OldWriteSinkLists ==
    {<<>>,
     <<SinkConfig("s", <<ErrorType>>, FileSink, "p", "f")>>,
     <<SinkConfig("s", <<AuditType, EveryType>>, FileSink, "p", "f"),
       SinkConfig("s", <<InfoType>>, FileSink, "p", "g")>>}

OldWriteConfigs ==
    [AuditDelivery : {Enforced, BestEffort}, InfoDelivery : {Enforced, BestEffort},
     AuditEnabled : BOOLEAN, InfoEnabled : BOOLEAN, Sinks : OldWriteSinkLists]

\* the Eventers the constructors build from these configurations
BuiltEventers == {NewEventer(TRUE, TRUE, c, 0).e : c \in WriteConfigs} \ {NilEventer}
OldBuiltEventers == {OldNewEventer(TRUE, c, 0).e : c \in OldWriteConfigs} \ {NilEventer}

Events == {NilEvent, SomeEvent}
Observations ==
    {NilEvent} \cup
    {Observation(h, d) : h \in {NilMap, Map({}), Map({<<VersionField, "v0">>})},
                         d \in {NilMap, Map({})}}

\* what fails in each of the attempts of one call: some of the sinks, or
\* the broker
Downs(b) ==
    [1..stdRetryCount -> SUBSET SinkIds(b)] \cup [1..stdRetryCount -> {{}, {Unavailable}}]

\* a call as the model records it: the arguments, the sinks failing during
\* each attempt, the return value and the broker.Send calls made
Called(op, event, downs, r) ==
    [op |-> op, event |-> event, downs |-> downs, eventAfter |-> r.event,
     ret |-> r.ret, sends |-> r.sends]

\* a call of a write method of eventer.go: as Called, and its context
CalledCtx(op, ctx, event, downs, r) ==
    [op |-> op, ctx |-> ctx, event |-> event, downs |-> downs, eventAfter |-> r.event,
     ret |-> r.ret, sends |-> r.sends]

\* The methods of eventer.go leave the Eventer as it is, so a second call
\* on it meets the state the first one met: a run makes one call on it.
NotCalledYet == call = NoCall

Init ==
    /\ input = NoInput
    /\ result = NoResult
    /\ \/ eventer \in BuiltEventers /\ oldEventer = NilEventer
       \/ eventer = NilEventer /\ oldEventer \in OldBuiltEventers
    /\ call = NoCall
    /\ heap = <<>>
    /\ sysEventer = nilRef
    /\ captured = NothingCaptured
    /\ lastInstalled = nilRef
    /\ gate = NoGate
    /\ io = NoIo
    /\ run = NoRun

\* the call has begun the wait that follows its latest attempt
Waiting(op) == call.op = op /\ call.ret = NotReturned

\* writeObservation is called and runs until it returns or retrySend
\* begins its first wait
CallWriteObservation ==
    /\ eventer # NilEventer
    /\ NotCalledYet
    /\ \E ctx \in Contexts, event \in Observations, downs \in Downs(eventer.broker) :
          \E r \in {writeObservation(ctx, eventer, event, downs, 0)} :
             call' = [op |-> "writeObservation", ctx |-> ctx, event |-> event,
                      downs |-> downs, eventAfter |-> r.event, ret |-> r.ret,
                      sends |-> r.sends, payloads |-> r.payloads]
    /\ UNCHANGED <<input, result, eventer, oldEventer, heap, sysEventer, captured, lastInstalled, gate, io, run>>

\* the wait of retrySend is over: writeObservation goes on until it returns
\* or retrySend begins its next wait
ResumeWriteObservation ==
    /\ eventer # NilEventer
    /\ Waiting("writeObservation")
    /\ \E r \in {writeObservation(call.ctx, eventer, call.event, call.downs,
                                   Len(call.sends))} :
          call' = [call EXCEPT !.eventAfter = r.event, !.ret = r.ret,
                               !.sends = r.sends, !.payloads = r.payloads]
    /\ UNCHANGED <<input, result, eventer, oldEventer, heap, sysEventer, captured, lastInstalled, gate, io, run>>

CallWriteError ==
    /\ eventer # NilEventer
    /\ NotCalledYet
    /\ \E ctx \in Contexts, event \in Events, downs \in Downs(eventer.broker) :
          call' = CalledCtx("writeError", ctx, event, downs,
                            writeError(ctx, eventer, event, downs, 0))
    /\ UNCHANGED <<input, result, eventer, oldEventer, heap, sysEventer, captured, lastInstalled, gate, io, run>>

ResumeWriteError ==
    /\ eventer # NilEventer
    /\ Waiting("writeError")
    /\ call' = CalledCtx("writeError", call.ctx, call.event, call.downs,
                        writeError(call.ctx, eventer, call.event, call.downs,
                           Len(call.sends)))
    /\ UNCHANGED <<input, result, eventer, oldEventer, heap, sysEventer, captured, lastInstalled, gate, io, run>>

CallWriteSysEvent ==
    /\ eventer # NilEventer
    /\ NotCalledYet
    /\ \E ctx \in Contexts, event \in Events, downs \in Downs(eventer.broker) :
          call' = CalledCtx("writeSysEvent", ctx, event, downs,
                            writeSysEvent(ctx, eventer, event, downs, 0))
    /\ UNCHANGED <<input, result, eventer, oldEventer, heap, sysEventer, captured, lastInstalled, gate, io, run>>

ResumeWriteSysEvent ==
    /\ eventer # NilEventer
    /\ Waiting("writeSysEvent")
    /\ call' = CalledCtx("writeSysEvent", call.ctx, call.event, call.downs,
                        writeSysEvent(call.ctx, eventer, call.event, call.downs,
                           Len(call.sends)))
    /\ UNCHANGED <<input, result, eventer, oldEventer, heap, sysEventer, captured, lastInstalled, gate, io, run>>

CallWriteAudit ==
    /\ eventer # NilEventer
    /\ NotCalledYet
    /\ \E ctx \in Contexts, event \in Events, downs \in Downs(eventer.broker) :
          call' = CalledCtx("writeAudit", ctx, event, downs,
                            writeAudit(ctx, eventer, event, downs, 0))
    /\ UNCHANGED <<input, result, eventer, oldEventer, heap, sysEventer, captured, lastInstalled, gate, io, run>>

ResumeWriteAudit ==
    /\ eventer # NilEventer
    /\ Waiting("writeAudit")
    /\ call' = CalledCtx("writeAudit", call.ctx, call.event, call.downs,
                        writeAudit(call.ctx, eventer, call.event, call.downs,
                           Len(call.sends)))
    /\ UNCHANGED <<input, result, eventer, oldEventer, heap, sysEventer, captured, lastInstalled, gate, io, run>>

CallFlushNodes ==
    /\ eventer # NilEventer
    /\ NotCalledYet
    /\ \E failing \in SUBSET (1..Len(eventer.flushableNodes)) :
          \E r \in {FlushNodes(eventer, failing)} :
             call' = [op |-> "FlushNodes", failing |-> failing, ret |-> r.ret,
                      flushed |-> r.flushed]
    /\ UNCHANGED <<input, result, eventer, oldEventer, heap, sysEventer, captured, lastInstalled, gate, io, run>>

CallInfo ==
    /\ oldEventer # NilEventer
    /\ \E event \in Events, down \in SUBSET SinkIds(oldEventer.broker) :
          call' = Called("Info", event, <<down>>, Info(oldEventer, event, down))
    /\ UNCHANGED <<input, result, eventer, oldEventer, heap, sysEventer, captured, lastInstalled, gate, io, run>>

CallError ==
    /\ oldEventer # NilEventer
    /\ \E event \in Events, down \in SUBSET SinkIds(oldEventer.broker) :
          call' = Called("Error", event, <<down>>, Error(oldEventer, event, down))
    /\ UNCHANGED <<input, result, eventer, oldEventer, heap, sysEventer, captured, lastInstalled, gate, io, run>>

CallAudit ==
    /\ oldEventer # NilEventer
    /\ \E event \in Events, down \in SUBSET SinkIds(oldEventer.broker) :
          call' = Called("Audit", event, <<down>>, Audit(oldEventer, event, down))
    /\ UNCHANGED <<input, result, eventer, oldEventer, heap, sysEventer, captured, lastInstalled, gate, io, run>>

CallSetAuditEnabled ==
    /\ oldEventer # NilEventer
    /\ \E enabled \in BOOLEAN :
          /\ oldEventer' = SetAuditEnabled(oldEventer, enabled)
          /\ call' = [op |-> "SetAuditEnabled", enabled |-> enabled]
    /\ UNCHANGED <<input, result, eventer, heap, sysEventer, captured, lastInstalled, gate, io, run>>

CallSetInfoEnabled ==
    /\ oldEventer # NilEventer
    /\ \E enabled \in BOOLEAN :
          /\ oldEventer' = SetInfoEnabled(oldEventer, enabled)
          /\ call' = [op |-> "SetInfoEnabled", enabled |-> enabled]
    /\ UNCHANGED <<input, result, eventer, heap, sysEventer, captured, lastInstalled, gate, io, run>>

Next ==
    \/ CallWriteObservation
    \/ ResumeWriteObservation
    \/ CallWriteError
    \/ ResumeWriteError
    \/ CallWriteSysEvent
    \/ ResumeWriteSysEvent
    \/ CallWriteAudit
    \/ ResumeWriteAudit
    \/ CallFlushNodes
    \/ CallInfo
    \/ CallError
    \/ CallAudit
    \/ CallSetAuditEnabled
    \/ CallSetInfoEnabled

Spec == Init /\ [][Next]_vars


(***************************************************************************)
(* Reading the last call.                                                  *)
(***************************************************************************)
NewWrites == {"writeAudit", "writeObservation", "writeError", "writeSysEvent"}
OldWrites == {"Audit", "Info", "Error"}
IsWrite(op) == call.op = op
NoSend == call.ret = NoErr /\ call.sends = <<>>

\* the event type a write method is named after
TypeOfWrite(op) ==
    CASE op = "writeAudit" -> AuditType
      [] op = "writeObservation" -> ObservationType
      [] op = "writeError" -> ErrorType
      [] op = "writeSysEvent" -> SystemType
      [] op = "Audit" -> AuditType
      [] op = "Info" -> InfoType
      [] op = "Error" -> ErrorType

(***************************************************************************)
(* C3: with AuditEnabled false, writeAudit (Audit in the older Eventer)    *)
(* called with a non-nil event returns nil and makes no broker.Send call;  *)
(* likewise writeObservation (Info) with ObservationsEnabled (InfoEnabled) *)
(* false.                                                                  *)
(***************************************************************************)
C3_DisabledAuditObservationNoSend ==
    /\ (IsWrite("writeAudit") /\ call.event # NilEvent /\ ~eventer.conf.AuditEnabled)
          => NoSend
    /\ (IsWrite("writeObservation") /\ call.event # NilEvent
            /\ ~eventer.conf.ObservationsEnabled) => NoSend
    /\ (IsWrite("Audit") /\ call.event # NilEvent /\ ~oldEventer.conf.AuditEnabled)
          => NoSend
    /\ (IsWrite("Info") /\ call.event # NilEvent /\ ~oldEventer.conf.InfoEnabled)
          => NoSend

\* writeAudit has returned for a non-nil event on an Eventer that has an
\* audit pipeline and AuditEnabled false
C3_Witness ==
    /\ IsWrite("writeAudit") /\ call.event # NilEvent
    /\ ~eventer.conf.AuditEnabled
    /\ Len(PipelinesOfType(eventer.broker, AuditType)) > 0
    /\ call.ret = NoErr

(***************************************************************************)
(* C4: every write method of eventer.go respects the enabled flag of its   *)
(* type; in particular writeSysEvent called with a non-nil event while     *)
(* SysEventsEnabled is false returns nil and makes no broker.Send call.    *)
(***************************************************************************)
C4_DisabledSysEventNoSend ==
    /\ (IsWrite("writeAudit") /\ call.event # NilEvent /\ ~eventer.conf.AuditEnabled)
          => NoSend
    /\ (IsWrite("writeObservation") /\ call.event # NilEvent
            /\ ~eventer.conf.ObservationsEnabled) => NoSend
    /\ (IsWrite("writeSysEvent") /\ call.event # NilEvent
            /\ ~eventer.conf.SysEventsEnabled) => NoSend

(***************************************************************************)
(* C5: writeError (Error in the older Eventer) called with a non-nil event *)
(* makes at least one broker.Send call for the Error type, whatever the    *)
(* enabled flags are.                                                      *)
(***************************************************************************)
C5_ErrorAlwaysSent ==
    ((IsWrite("writeError") \/ IsWrite("Error")) /\ call.event # NilEvent) =>
        \E i \in 1..Len(call.sends) : call.sends[i].t = ErrorType

\* writeError has returned for a non-nil event on an Eventer with every
\* enabled flag false
C5_Witness ==
    /\ IsWrite("writeError") /\ call.event # NilEvent
    /\ ~eventer.conf.AuditEnabled
    /\ ~eventer.conf.ObservationsEnabled
    /\ ~eventer.conf.SysEventsEnabled
    /\ Len(call.sends) >= 1

(***************************************************************************)
(* C6: writeAudit, writeObservation, writeError and writeSysEvent called   *)
(* with a nil event return an invalid-parameter error and make no          *)
(* broker.Send call (the retry wrapper is not entered), also when the      *)
(* type of the method is disabled.                                         *)
(***************************************************************************)
C6_NilEventRejected ==
    (call.op \in NewWrites /\ call.event = NilEvent) =>
        /\ call.ret = ErrInvalidParameter
        /\ call.sends = <<>>
        /\ call.eventAfter = NilEvent

\* writeAudit has rejected a nil event on an Eventer with AuditEnabled false
C6_Witness ==
    /\ IsWrite("writeAudit") /\ call.event = NilEvent
    /\ ~eventer.conf.AuditEnabled
    /\ call.ret = ErrInvalidParameter

(***************************************************************************)
(* C9: every broker.Send call a write method makes carries the event type  *)
(* the method is named after: Audit for the audit write, Observation/Info  *)
(* for the observation/info write, Error for the error write, System for   *)
(* the system write.                                                       *)
(***************************************************************************)
C9_SendsUnderOwnType ==
    (call.op \in NewWrites \cup OldWrites) =>
        \A i \in 1..Len(call.sends) : call.sends[i].t = TypeOfWrite(call.op)

(***************************************************************************)
(* C15: on an Eventer of eventer.go with k >= 1 sinks subscribed to Error, *)
(* a writeError of a non-nil event during which at least one error sink    *)
(* fails in every attempt never returns nil, and returns its error after   *)
(* stdRetryCount attempts                                                  *)
(* (after k attempts when the context is cancelled during the k-th wait),  *)
(* also when all other error sinks accepted the event in every attempt.    *)
(***************************************************************************)
C15_OneFailingErrorSinkFailsWrite ==
    (/\ IsWrite("writeError") /\ call.event # NilEvent
     /\ SinksOfType(eventer.broker, ErrorType) # {}
     /\ \A i \in 1..stdRetryCount :
           call.downs[i] \cap SinksOfType(eventer.broker, ErrorType) # {})
    => /\ call.ret # NoErr
       /\ call.ret # NotReturned =>
             Len(call.sends) = IF call.ctx = Background THEN stdRetryCount ELSE call.ctx

\* writeError returned on an Eventer with two error sinks, one of which
\* failed in every attempt while the other accepted the event every time
C15_Witness ==
    /\ IsWrite("writeError") /\ call.event # NilEvent
    /\ Cardinality(SinksOfType(eventer.broker, ErrorType)) = 2
    /\ \E id \in SinksOfType(eventer.broker, ErrorType) :
          \A i \in 1..stdRetryCount : call.downs[i] = {id}
    /\ call.ctx = Background
    /\ Len(call.sends) = stdRetryCount
    /\ call.ret # NoErr

(***************************************************************************)
(* C16 as stated: a write method of eventer.go that has returned has made  *)
(* at most stdRetryCount = 3 Send calls and none after an attempt          *)
(* succeeded; when every attempt fails it has returned the error of the    *)
(* send after exactly 3 attempts; when the first two attempts fail and     *)
(* the third succeeds it has returned nil after exactly 3 attempts.        *)
(***************************************************************************)
C16_RetryBoundedAsStated ==
    (/\ call.op \in NewWrites /\ call.event # NilEvent /\ Len(call.sends) > 0
     /\ call.ret # NotReturned) =>
        LET n == Len(call.sends)
            attempt(i) == Send(eventer.broker, TypeOfWrite(call.op), call.downs[i])
        IN  /\ n <= stdRetryCount
            /\ \A i \in 1..(n - 1) : call.sends[i].err # NoErr
            /\ (\A i \in 1..stdRetryCount : attempt(i).err # NoErr) =>
                  /\ n = stdRetryCount
                  /\ call.ret = Wrap(attempt(stdRetryCount).err)
            /\ (/\ attempt(1).err # NoErr /\ attempt(2).err # NoErr
                /\ attempt(3).err = NoErr) =>
                  /\ n = 3
                  /\ call.ret = NoErr

(***************************************************************************)
(* C16, amended: a write method of eventer.go makes its broker.Send calls  *)
(* through the retry wrapper with maxAttempts = stdRetryCount = 3: it      *)
(* makes at most 3 Send calls, one per attempt, none after an attempt      *)
(* succeeded, and returns nil exactly when its last attempt succeeded; it  *)
(* waits only after a transient failure and before the last attempt.  Once *)
(* the call has returned, with a context that is not cancelled: when every *)
(* attempt fails transiently (threshold missed or broker unavailable) it   *)
(* has returned the error of the last attempt after exactly 3 attempts,    *)
(* and when the first two attempts fail transiently and the third succeeds *)
(* it has returned nil after exactly 3 attempts.  A failure that is not    *)
(* transient (no pipeline for the type) is returned after the first        *)
(* attempt.  When the context is cancelled during the wait after the k-th  *)
(* attempt and the attempts up to the k-th failed transiently, it has      *)
(* returned the context's error after exactly k attempts.                  *)
(***************************************************************************)
C16_RetryBounded ==
    (call.op \in NewWrites /\ call.event # NilEvent /\ Len(call.sends) > 0) =>
        LET n == Len(call.sends)
            attempt(i) == Send(eventer.broker, TypeOfWrite(call.op), call.downs[i])
        IN  /\ n <= stdRetryCount
            /\ \A i \in 1..n : call.sends[i] = attempt(i)
            /\ \A i \in 1..(n - 1) : call.sends[i].err # NoErr
            /\ call.ret = NoErr <=> call.sends[n].err = NoErr
            /\ call.ret = NotReturned =>
                  (n < stdRetryCount /\ Transient(call.sends[n].err))
            /\ call.ret # NotReturned =>
                  /\ (/\ call.ctx = Background
                      /\ \A i \in 1..stdRetryCount : Transient(attempt(i).err)) =>
                        /\ n = stdRetryCount
                        /\ call.ret = Wrap(attempt(stdRetryCount).err)
                  /\ (/\ call.ctx = Background
                      /\ Transient(attempt(1).err) /\ Transient(attempt(2).err)
                      /\ attempt(3).err = NoErr) =>
                        /\ n = 3
                        /\ call.ret = NoErr
                  /\ (attempt(1).err # NoErr /\ ~Transient(attempt(1).err)) =>
                        /\ n = 1
                        /\ call.ret = Wrap(attempt(1).err)
                  /\ (/\ call.ctx # Background
                      /\ \A i \in 1..call.ctx : Transient(attempt(i).err)) =>
                        /\ n = call.ctx
                        /\ call.ret = Wrap(ErrCanceled)

\* writeObservation, its context not cancelled, returned the error of the
\* broker after three attempts during each of which the broker was
\* unavailable
C16_Witness ==
    /\ IsWrite("writeObservation") /\ call.event # NilEvent
    /\ call.ctx = Background
    /\ Len(call.sends) = stdRetryCount
    /\ \A i \in 1..stdRetryCount : call.sends[i].err = "unavailable"
    /\ call.ret = Wrap("unavailable")

\* the values a map holds under key k (none for a nil map)
ValuesAt(m, k) == IF m = NilMap THEN {} ELSE {x[2] : x \in {y \in m.kv : y[1] = k}}

\* the entries of a map under keys other than those of K
EntriesOutside(m, K) == IF m = NilMap THEN {} ELSE {x \in m.kv : x[1] \notin K}

(***************************************************************************)
(* C23: writeObservation hands broker.Send one payload per attempt.  In    *)
(* each of them a non-nil Header holds the event's RequestInfo under       *)
(* request_info and its Version under version, a non-nil Detail holds its  *)
(* Op under op, every other entry is as the caller set it, and a nil map   *)
(* is still nil; the payload of every retry equals that of the first       *)
(* attempt; the event is left as the last attempt stamped it; and when     *)
(* observations are disabled the event is left exactly as it was given.    *)
(***************************************************************************)
C23_StampedPerAttempt ==
    (IsWrite("writeObservation") /\ call.event # NilEvent) =>
        LET n == Len(call.sends)
            ev == call.event
        IN  /\ Len(call.payloads) = n
            /\ ~eventer.conf.ObservationsEnabled =>
                  (n = 0 /\ call.eventAfter = ev)
            /\ eventer.conf.ObservationsEnabled => n >= 1
            /\ \A i \in 1..n :
                  LET p == call.payloads[i]
                  IN  /\ p = call.payloads[1]
                      /\ (ev.Header = NilMap) <=> (p.Header = NilMap)
                      /\ (ev.Detail = NilMap) <=> (p.Detail = NilMap)
                      /\ ev.Header # NilMap =>
                            /\ ValuesAt(p.Header, RequestInfoField) = {ev.RequestInfo}
                            /\ ValuesAt(p.Header, VersionField) = {ev.Version}
                      /\ ev.Detail # NilMap =>
                            ValuesAt(p.Detail, OpField) = {ev.Op}
                      /\ EntriesOutside(p.Header, {RequestInfoField, VersionField})
                            = EntriesOutside(ev.Header, {RequestInfoField, VersionField})
                      /\ EntriesOutside(p.Detail, {OpField})
                            = EntriesOutside(ev.Detail, {OpField})
            /\ n >= 1 =>
                  /\ Payload(call.eventAfter) = call.payloads[n]
                  /\ call.eventAfter.RequestInfo = ev.RequestInfo
                  /\ call.eventAfter.Version = ev.Version
                  /\ call.eventAfter.Op = ev.Op

\* writeObservation made three attempts for an event whose Header already
\* held another version and whose Detail was nil
C23_Witness ==
    /\ IsWrite("writeObservation") /\ call.event # NilEvent
    /\ Len(call.sends) = stdRetryCount
    /\ call.event.Header # NilMap
    /\ ValuesAt(call.event.Header, VersionField) = {"v0"}
    /\ call.event.Detail = NilMap
    /\ ValuesAt(call.payloads[stdRetryCount].Header, VersionField) = {call.event.Version}
    /\ call.payloads[stdRetryCount].Detail = NilMap


\* the RegisterNode calls for gate nodes the broker accepted
RegisteredGates(calls) ==
    SelectSeq(calls, LAMBDA c : c.op = "RegisterNode" /\ c.ok /\ c.node.kind = "gate")

(***************************************************************************)
(* C26: on an Eventer built by NewEventer of eventer.go, flushableNodes    *)
(* holds the gate nodes registered with the broker, in the order they      *)
(* were registered and each once; its length is the number of Audit        *)
(* pipelines plus the number of Observation pipelines, whatever the        *)
(* enabled flags; and a call of FlushNodes reaches every one of these      *)
(* gates: each has had its FlushAll called when FlushNodes returns.        *)
(***************************************************************************)
C26_FlushableNodesAreTheGates ==
    IsWrite("FlushNodes") =>
        LET gates == RegisteredGates(eventer.broker)
        IN  /\ Len(eventer.flushableNodes) = Len(gates)
            /\ \A i \in 1..Len(gates) : eventer.flushableNodes[i] = gates[i].node
            /\ \A i, j \in 1..Len(eventer.flushableNodes) :
                  i # j => eventer.flushableNodes[i] # eventer.flushableNodes[j]
            /\ Len(eventer.flushableNodes)
                  = Cardinality(PipelinesFor(eventer.broker, AuditType))
                    + Cardinality(PipelinesFor(eventer.broker, ObservationType))
            /\ {call.flushed[i] : i \in 1..Len(call.flushed)}
                  = {gates[i].node : i \in 1..Len(gates)}


(***************************************************************************)
(* C12: FlushNodes calls FlushAll on every node of flushableNodes, also    *)
(* after the FlushAll of an earlier node returned an error, and returns    *)
(* the first error encountered (nil when no FlushAll failed).              *)
(***************************************************************************)
C12_FlushNodesAttemptsAll ==
    IsWrite("FlushNodes") =>
        /\ call.flushed = eventer.flushableNodes
        /\ call.ret = IF call.failing = {} THEN NoErr
                      ELSE FlushAllErr(CHOOSE i \in call.failing :
                                          \A j \in call.failing : i <= j)


(***************************************************************************)
(* The process-wide singleton.  h is the heap of Eventers, sys the value   *)
(* of sysEventer.  withEventer is the reference given by WithEventer       *)
(* (nilRef without the option), withEventerConfig the configuration given  *)
(* by WithEventerConfig (NilConfig without it).  The value is the error    *)
(* returned, the Eventer e the call built or was given, and the heap and   *)
(* sysEventer as the call leaves them.                                     *)
(***************************************************************************)
InitReturn(err, e, h, sys) == [err |-> err, e |-> e, heap |-> h, sysEventer |-> sys]

\* sets sysEventer from e before looking at the error of NewEventer
InitSysEventerEager(h, sys, log, serializationLock, withEventer, withEventerConfig, failAt) ==
    IF ~log THEN InitReturn(ErrInvalidParameter, nilRef, h, sys)
    ELSE IF ~serializationLock THEN InitReturn(ErrInvalidParameter, nilRef, h, sys)
    ELSE IF withEventer = nilRef /\ withEventerConfig = NilConfig
         THEN InitReturn(ErrInvalidParameter, nilRef, h, sys)
    ELSE IF withEventer # nilRef /\ withEventerConfig # NilConfig
         THEN InitReturn(ErrInvalidParameter, nilRef, h, sys)
    ELSE IF withEventerConfig # NilConfig
         THEN LET r == NewEventer(log, serializationLock, withEventerConfig, failAt)
              IN  IF r.err # NoErr
                  THEN InitReturn(r.err, nilRef, h, nilRef)
                  ELSE InitReturn(NoErr, Len(h) + 1, Append(h, r.e), Len(h) + 1)
    ELSE InitReturn(NoErr, withEventer, h, withEventer)

\* installs e only while sysEventer is still nil
InitSysEventerOnce(h, sys, log, serializationLock, withEventer, withEventerConfig, failAt) ==
    IF ~log THEN InitReturn(ErrInvalidParameter, nilRef, h, sys)
    ELSE IF ~serializationLock THEN InitReturn(ErrInvalidParameter, nilRef, h, sys)
    ELSE IF withEventer = nilRef /\ withEventerConfig = NilConfig
         THEN InitReturn(ErrInvalidParameter, nilRef, h, sys)
    ELSE IF withEventer # nilRef /\ withEventerConfig # NilConfig
         THEN InitReturn(ErrInvalidParameter, nilRef, h, sys)
    ELSE IF withEventerConfig # NilConfig
         THEN LET r == NewEventer(log, serializationLock, withEventerConfig, failAt)
              IN  IF r.err # NoErr
                  THEN InitReturn(r.err, nilRef, h, sys)
                  ELSE InitReturn(NoErr, Len(h) + 1, Append(h, r.e),
                                  IF sys = nilRef THEN Len(h) + 1 ELSE sys)
    ELSE InitReturn(NoErr, withEventer, h, IF sys = nilRef THEN withEventer ELSE sys)

InitSysEventer(h, sys, log, serializationLock, withEventer, withEventerConfig, failAt) ==
    IF ~log THEN InitReturn(ErrInvalidParameter, nilRef, h, sys)
    ELSE IF ~serializationLock THEN InitReturn(ErrInvalidParameter, nilRef, h, sys)
    ELSE IF withEventer = nilRef /\ withEventerConfig = NilConfig
         THEN InitReturn(ErrInvalidParameter, nilRef, h, sys)
    ELSE IF withEventer # nilRef /\ withEventerConfig # NilConfig
         THEN InitReturn(ErrInvalidParameter, nilRef, h, sys)
    ELSE IF withEventerConfig # NilConfig
         THEN LET r == NewEventer(log, serializationLock, withEventerConfig, failAt)
              IN  IF r.err # NoErr
                  THEN InitReturn(r.err, nilRef, h, sys)
                  ELSE InitReturn(NoErr, Len(h) + 1, Append(h, r.e), Len(h) + 1)
    ELSE InitReturn(NoErr, withEventer, h, withEventer)

\* SysEventer(): the current value of sysEventer
SysEventer(sys) == sys

(***************************************************************************)
(* SpecSys: InitSysEventer and SysEventer called one after the other, and  *)
(* callers that build an Eventer themselves to pass it with WithEventer.   *)
(***************************************************************************)
\* two configurations NewEventer accepts and one it rejects (audit events
\* enabled, no sink subscribed to them)
SysConfigs ==
    {[AuditEnabled |-> FALSE, ObservationsEnabled |-> TRUE, SysEventsEnabled |-> TRUE,
      Sinks |-> <<>>, Valid |-> TRUE],
     [AuditEnabled |-> FALSE, ObservationsEnabled |-> FALSE, SysEventsEnabled |-> TRUE,
      Sinks |-> <<SinkConfig("s", <<EveryType>>, FileSink, "p", "f")>>, Valid |-> TRUE],
     [AuditEnabled |-> TRUE, ObservationsEnabled |-> FALSE, SysEventsEnabled |-> FALSE,
      Sinks |-> <<SinkConfig("s", <<ErrorType>>, StderrSink, "", "")>>, Valid |-> TRUE]}

InitSys ==
    /\ input = NoInput
    /\ result = NoResult
    /\ eventer = NilEventer
    /\ oldEventer = NilEventer
    /\ call = NoCall
    /\ heap = <<>>
    /\ sysEventer = nilRef
    /\ captured = NothingCaptured
    /\ lastInstalled = nilRef
    /\ gate = NoGate
    /\ io = NoIo
    /\ run = NoRun

\* a caller builds an Eventer of its own with NewEventer
BuildEventer ==
    /\ Len(heap) < MaxEventers
    /\ \E c \in SysConfigs :
          \E r \in {NewEventer(TRUE, TRUE, c, 0)} :
              /\ r.err = NoErr
              /\ heap' = Append(heap, r.e)
              /\ call' = [op |-> "NewEventer", ret |-> Len(heap) + 1]
    /\ UNCHANGED <<input, result, eventer, oldEventer, sysEventer, captured, lastInstalled, gate, io, run>>

CallInitSysEventer ==
    \E log \in BOOLEAN, serializationLock \in BOOLEAN, withEventer \in 0..Len(heap),
       withEventerConfig \in SysConfigs \cup {NilConfig}, failAt \in 0..MaxFailAt :
          \E r \in {InitSysEventer(heap, sysEventer, log, serializationLock,
                                   withEventer, withEventerConfig, failAt)} :
              /\ Len(r.heap) <= MaxEventers
              /\ heap' = r.heap
              /\ sysEventer' = r.sysEventer
              /\ lastInstalled' = IF r.err = NoErr THEN r.e ELSE lastInstalled
              /\ call' = [op |-> "InitSysEventer", ret |-> r.err,
                          withEventer |-> withEventer,
                          withEventerConfig |-> withEventerConfig # NilConfig]
              /\ UNCHANGED <<input, result, eventer, oldEventer, captured, gate, io, run>>

\* SysEventer(); the caller may keep the reference it got
CallSysEventer ==
    /\ \E keep \in BOOLEAN :
          \E ref \in {SysEventer(sysEventer)} :
              /\ call' = [op |-> "SysEventer", ret |-> ref]
              /\ captured' = IF keep
                             THEN [ref |-> ref,
                                   e |-> IF ref = nilRef THEN NilEventer ELSE heap[ref]]
                             ELSE captured
    /\ UNCHANGED <<input, result, eventer, oldEventer, heap, sysEventer, lastInstalled, gate, io, run>>

NextSys == BuildEventer \/ CallInitSysEventer \/ CallSysEventer

SpecSys == InitSys /\ [][NextSys]_vars

(***************************************************************************)
(* C7: InitSysEventer returns an invalid-parameter error when neither or   *)
(* both of an Eventer and an Eventer configuration are supplied, and a     *)
(* call that returns an error (missing logger, missing lock,               *)
(* both-or-neither, failing NewEventer) leaves sysEventer as it was.       *)
(***************************************************************************)
C7_InitErrorLeavesSingleton ==
    [][call'.op = "InitSysEventer" =>
          /\ ((call'.withEventer # nilRef) = call'.withEventerConfig)
                => call'.ret = ErrInvalidParameter
          /\ call'.ret # NoErr => sysEventer' = sysEventer]_vars

\* an InitSysEventer given a configuration alone has returned the error of
\* NewEventer (its id generation failed) while an Eventer was installed
C7_Witness ==
    /\ call.op = "InitSysEventer"
    /\ call.withEventer = nilRef /\ call.withEventerConfig
    /\ call.ret = "newId failed"
    /\ sysEventer # nilRef

(***************************************************************************)
(* C8: SysEventer returns nil as long as no InitSysEventer has succeeded   *)
(* and otherwise the instance the most recent successful InitSysEventer    *)
(* installed; an instance a caller obtained earlier is not modified by a   *)
(* later InitSysEventer.                                                   *)
(***************************************************************************)
C8_SysEventerReturnsLastInstalled ==
    /\ call.op = "SysEventer" => call.ret = lastInstalled
    /\ captured.ref # nilRef => heap[captured.ref] = captured.e

\* SysEventer has returned an instance other than the one a caller had
\* obtained from it before
C8_Witness ==
    /\ call.op = "SysEventer"
    /\ captured.ref # nilRef
    /\ call.ret # nilRef
    /\ call.ret # captured.ref
    /\ heap[call.ret] # heap[captured.ref]


(***************************************************************************)
(* The gate node (gated.Filter).  buf maps each open correlation id to the *)
(* sub-events buffered for it, in receipt order.  Process and FlushAll     *)
(* give the new buffers, the batches forwarded down the pipeline (in       *)
(* order) and the error returned.                                          *)
(***************************************************************************)
MaxGateSteps == 6      \* Process and FlushAll calls on the gate in one run

Correlations == {"c1", "c2"}

EmptyBuf == [c \in {} |-> <<>>]

\* the n-th event the gate receives: its correlation id and whether it is
\* the terminal event of the correlation
GateEvent(id, terminal, n) == [id |-> id, terminal |-> terminal, n |-> n]

\* Process that forwards the batch of a terminal event and keeps the entry
ProcessKeepsEntry(buf, event) ==
    LET buffered == IF event.id \in DOMAIN buf THEN buf[event.id] ELSE <<>>
        all == Append(buffered, event)
    IN  [buf |-> [d \in DOMAIN buf \cup {event.id} |-> IF d = event.id THEN all ELSE buf[d]],
         forward |-> IF event.terminal THEN <<all>> ELSE <<>>,
         err |-> NoErr]

Process(buf, event) ==
    LET buffered == IF event.id \in DOMAIN buf THEN buf[event.id] ELSE <<>>
        all == Append(buffered, event)
    IN  IF event.terminal
        THEN [buf |-> [d \in DOMAIN buf \ {event.id} |-> buf[d]],
              forward |-> <<all>>,
              err |-> NoErr]
        ELSE [buf |-> [d \in DOMAIN buf \cup {event.id} |->
                          IF d = event.id THEN all ELSE buf[d]],
              forward |-> <<>>,
              err |-> NoErr]

\* FlushAll that forwards the buffers and does not clear them
FlushAllKeepsState(buf, order) ==
    [buf |-> buf,
     forward |-> [i \in 1..Len(order) |-> buf[order[i]]],
     err |-> NoErr]

\* FlushAll visiting the open correlations in the given order
FlushAll(buf, order) ==
    [buf |-> EmptyBuf,
     forward |-> [i \in 1..Len(order) |-> buf[order[i]]],
     err |-> NoErr]

\* the orders in which a set can be visited
Orders(S) ==
    {o \in [1..Cardinality(S) -> S] : \A i, j \in 1..Cardinality(S) : o[i] = o[j] => i = j}

(***************************************************************************)
(* SpecGate: events and flushes reaching one gate.  hist is what the gate  *)
(* was asked to do, out the batches it forwarded, each with the position   *)
(* in hist of the call that forwarded it.                                  *)
(***************************************************************************)
InitGate ==
    /\ input = NoInput
    /\ result = NoResult
    /\ eventer = NilEventer
    /\ oldEventer = NilEventer
    /\ call = NoCall
    /\ heap = <<>>
    /\ sysEventer = nilRef
    /\ captured = NothingCaptured
    /\ lastInstalled = nilRef
    /\ gate = [nil |-> FALSE, buf |-> EmptyBuf, hist |-> <<>>, out |-> <<>>, err |-> NoErr]
    /\ io = NoIo
    /\ run = NoRun

\* the batches of r.forward, stamped with the position of the call
Forwarded(g, r) == [i \in 1..Len(r.forward) |-> [at |-> Len(g.hist) + 1, batch |-> r.forward[i]]]

GateProcess ==
    /\ Len(gate.hist) < MaxGateSteps
    /\ \E id \in Correlations, terminal \in BOOLEAN :
          \E event \in {GateEvent(id, terminal, Len(gate.hist) + 1)} :
             \E r \in {Process(gate.buf, event)} :
                gate' = [gate EXCEPT !.buf = r.buf,
                                     !.hist = Append(@, [op |-> "Process", event |-> event]),
                                     !.out = @ \o Forwarded(gate, r),
                                     !.err = r.err]
    /\ UNCHANGED <<input, result, eventer, oldEventer, call, heap, sysEventer, captured,
                   lastInstalled, io, run>>

GateFlushAll ==
    /\ Len(gate.hist) < MaxGateSteps
    /\ \E order \in Orders(DOMAIN gate.buf) :
          \E r \in {FlushAll(gate.buf, order)} :
             gate' = [gate EXCEPT !.buf = r.buf,
                                  !.hist = Append(@, [op |-> "FlushAll"]),
                                  !.out = @ \o Forwarded(gate, r),
                                  !.err = r.err]
    /\ UNCHANGED <<input, result, eventer, oldEventer, call, heap, sysEventer, captured,
                   lastInstalled, io, run>>

NextGate == GateProcess \/ GateFlushAll

SpecGate == InitGate /\ [][NextGate]_vars

(***************************************************************************)
(* Reading the gate's history.                                             *)
(***************************************************************************)
LastStep == gate.hist[Len(gate.hist)]
Before == SubSeq(gate.hist, 1, Len(gate.hist) - 1)

\* the call closes correlation c: its terminal event, or a FlushAll
Closes(h, c) == h.op = "FlushAll" \/ (h.event.id = c /\ h.event.terminal)

\* the position of the last call of hist that closed c (0: none)
LastClose(hist, c) ==
    LET S == {i \in 1..Len(hist) : Closes(hist[i], c)}
    IN  IF S = {} THEN 0 ELSE CHOOSE i \in S : \A j \in S : j <= i

\* the events of c received since c was last closed, in receipt order
Pending(hist, c) ==
    LET rest == SelectSeq(SubSeq(hist, LastClose(hist, c) + 1, Len(hist)),
                          LAMBDA h : h.op = "Process" /\ h.event.id = c)
    IN  [i \in 1..Len(rest) |-> rest[i].event]

\* the batches the k-th call forwarded, in order
OutAt(k) == SelectSeq(gate.out, LAMBDA o : o.at = k)

(***************************************************************************)
(* C17: when a gate that has buffered N sub-events of correlation C        *)
(* receives C's terminal event, that call forwards exactly one batch, the  *)
(* N buffered events followed by the terminal one in receipt order, and C  *)
(* is no longer in the gate's state; the buffers of the other correlations *)
(* are neither forwarded nor changed.  With N = 0 (C unknown, or closed    *)
(* before) the call returns no error and the batch is the terminal event   *)
(* alone.                                                                  *)
(***************************************************************************)
C17_TerminalForwardsOneBatch ==
    (Len(gate.hist) > 0 /\ LastStep.op = "Process" /\ LastStep.event.terminal) =>
        LET c == LastStep.event.id
        IN  /\ gate.err = NoErr
            /\ Len(OutAt(Len(gate.hist))) = 1
            /\ OutAt(Len(gate.hist))[1].batch = Append(Pending(Before, c), LastStep.event)
            /\ c \notin DOMAIN gate.buf
            /\ \A d \in Correlations \ {c} :
                  /\ d \in DOMAIN gate.buf <=> Pending(Before, d) # <<>>
                  /\ d \in DOMAIN gate.buf => gate.buf[d] = Pending(Before, d)

\* the terminal event of a correlation with two buffered sub-events has
\* been processed while the other correlation had a sub-event buffered
C17_Witness ==
    /\ Len(gate.hist) > 0 /\ LastStep.op = "Process" /\ LastStep.event.terminal
    /\ Len(Pending(Before, LastStep.event.id)) = 2
    /\ \E d \in Correlations \ {LastStep.event.id} : Len(Pending(Before, d)) = 1
    /\ Len(OutAt(Len(gate.hist))) = 1

(***************************************************************************)
(* C18: FlushAll forwards one batch per open correlation, holding exactly  *)
(* the events buffered for it, and leaves the gate without buffered        *)
(* correlation; a FlushAll with nothing buffered forwards nothing and      *)
(* leaves the gate empty; no event is forwarded twice.                     *)
(***************************************************************************)
C18_FlushAllForwardsEachOnce ==
    /\ (Len(gate.hist) > 0 /\ LastStep.op = "FlushAll") =>
          LET open == {d \in Correlations : Pending(Before, d) # <<>>}
              sent == OutAt(Len(gate.hist))
          IN  /\ gate.err = NoErr
              /\ Len(sent) = Cardinality(open)
              /\ {sent[i].batch : i \in 1..Len(sent)} = {Pending(Before, d) : d \in open}
              /\ DOMAIN gate.buf = {}
    /\ \A i, j \in 1..Len(gate.out) :
          \A m \in 1..Len(gate.out[i].batch), n \in 1..Len(gate.out[j].batch) :
             gate.out[i].batch[m] = gate.out[j].batch[n] => (i = j /\ m = n)

\* a FlushAll forwarded two batches, of three events and of one, and the
\* FlushAll that followed it forwarded nothing
C18_Witness ==
    /\ Len(gate.hist) >= 2
    /\ LastStep.op = "FlushAll"
    /\ gate.hist[Len(gate.hist) - 1].op = "FlushAll"
    /\ OutAt(Len(gate.hist)) = <<>>
    /\ {Len(OutAt(Len(gate.hist) - 1)[i].batch) : i \in 1..Len(OutAt(Len(gate.hist) - 1))}
          = {1, 3}


(***************************************************************************)
(* Reopen under concurrent sends.  Senders call a write method, which      *)
(* reaches the Process of a file sink; reopeners call Eventer.Reopen,      *)
(* which reaches the Reopen of the sink through broker.Reopen.  The sink   *)
(* writes a formatted record in Parts pieces to its open file and guards   *)
(* file handle and writes with its own lock.  The older Eventer holds its  *)
(* mutex l during Reopen; its send methods do not take l.                  *)
(*   l         holder of the Eventer's mutex (Free: none)                  *)
(*   sinkLock  holder of the sink's lock                                   *)
(*   pc, cur, part   per process: position, record in hand, next piece     *)
(*   f         the sink's file handle: an index into files, Closed if none *)
(*   files     the contents of the files written so far, as pieces         *)
(*   started, sent   records whose write began / whose send returned       *)
(*   overlap   records in flight when some Reopen began                    *)
(***************************************************************************)
MaxSends == 2        \* records sent in one run
MaxReopens == 2      \* Reopen calls in one run

Senders == {"s1", "s2"}
Reopeners == {"r1", "r2"}
Parts == 2
Free == "free"
Closed == 0

InitReopen ==
    /\ input = NoInput
    /\ result = NoResult
    /\ eventer = NilEventer
    /\ oldEventer = NilEventer
    /\ call = NoCall
    /\ heap = <<>>
    /\ sysEventer = nilRef
    /\ captured = NothingCaptured
    /\ lastInstalled = nilRef
    /\ gate = NoGate
    /\ \E version \in {"new", "old"} :
          io = [nil |-> FALSE, version |-> version, l |-> Free, sinkLock |-> Free,
                pc |-> [p \in Senders \cup Reopeners |-> "idle"],
                cur |-> [p \in Senders |-> 0], part |-> [p \in Senders |-> 1],
                f |-> 1, files |-> << <<>> >>, n |-> 0, reopens |-> 0,
                started |-> {}, sent |-> {}, overlap |-> {}]
    /\ run = NoRun

OthersUnchanged ==
    UNCHANGED <<input, result, eventer, oldEventer, call, heap, sysEventer, captured,
                lastInstalled, gate, run>>

\* a write method is called and reaches the sink through broker.Send
\* (Info, Error and Audit of the older Eventer take no lock on the way)
SendBegin ==
    /\ io.n < MaxSends
    /\ \E p \in Senders :
          /\ io.pc[p] = "idle"
          /\ io' = [io EXCEPT !.n = @ + 1, !.cur[p] = io.n + 1, !.part[p] = 1,
                              !.pc[p] = "process"]
    /\ OthersUnchanged

\* the sink's Process takes the sink's lock
SinkProcessLock ==
    /\ \E p \in Senders :
          /\ io.pc[p] = "process"
          /\ io.sinkLock = Free
          /\ io' = [io EXCEPT !.sinkLock = p, !.pc[p] = "write"]
    /\ OthersUnchanged

\* the sink writes the next piece of the record to its file handle; a
\* piece written to a closed handle is lost
SinkWrite ==
    /\ \E p \in Senders :
          /\ io.pc[p] = "write"
          /\ io' = [io EXCEPT
                       !.files = IF io.f = Closed THEN @
                                 ELSE [@ EXCEPT ![io.f] = Append(@, <<io.cur[p], io.part[p]>>)],
                       !.started = @ \cup {io.cur[p]},
                       !.part[p] = @ + 1,
                       !.pc[p] = IF io.part[p] = Parts THEN "written" ELSE "write"]
    /\ OthersUnchanged

\* Process releases the sink's lock and the send returns
SinkProcessUnlock ==
    /\ \E p \in Senders :
          /\ io.pc[p] = "written"
          /\ io' = [io EXCEPT !.sinkLock = IF @ = p THEN Free ELSE @,
                              !.sent = @ \cup {io.cur[p]},
                              !.pc[p] = "idle"]
    /\ OthersUnchanged

\* Eventer.Reopen: the older Eventer locks l, then both call broker.Reopen
ReopenBegin ==
    /\ io.reopens < MaxReopens
    /\ \E q \in Reopeners :
          /\ io.pc[q] = "idle"
          /\ io.version = "old" => io.l = Free
          /\ io' = [io EXCEPT !.l = IF io.version = "old" THEN q ELSE @,
                              !.reopens = @ + 1,
                              !.overlap = @ \cup {io.cur[p] : p \in
                                   {x \in Senders : io.pc[x] \in {"process", "write", "written"}}},
                              !.pc[q] = "reopen"]
    /\ OthersUnchanged

\* the sink's Reopen going ahead without the sink's lock
SinkReopenNoLock ==
    /\ \E q \in Reopeners :
          /\ io.pc[q] = "reopen"
          /\ io' = [io EXCEPT !.pc[q] = "close"]
    /\ OthersUnchanged

\* the sink's Reopen takes the sink's lock
SinkReopenLock ==
    /\ \E q \in Reopeners :
          /\ io.pc[q] = "reopen"
          /\ io.sinkLock = Free
          /\ io' = [io EXCEPT !.sinkLock = q, !.pc[q] = "close"]
    /\ OthersUnchanged

\* Reopen closes the file handle
SinkReopenClose ==
    /\ \E q \in Reopeners :
          /\ io.pc[q] = "close"
          /\ io' = [io EXCEPT !.f = Closed, !.pc[q] = "open"]
    /\ OthersUnchanged

\* Reopen opens the file again: the file it had (rotated = FALSE), or a new
\* file when the old one was moved away
SinkReopenOpen ==
    /\ \E q \in Reopeners, rotated \in BOOLEAN :
          /\ io.pc[q] = "open"
          /\ io' = [io EXCEPT !.files = IF rotated THEN Append(@, <<>>) ELSE @,
                              !.f = IF rotated THEN Len(io.files) + 1 ELSE Len(io.files),
                              !.pc[q] = "opened"]
    /\ OthersUnchanged

\* the sink's Reopen releases the sink's lock and returns; with it
\* broker.Reopen returns, and Reopen of eventer.go, which holds no lock.
\* Reopen of the older Eventer still holds l.
SinkReopenUnlock ==
    /\ \E q \in Reopeners :
          /\ io.pc[q] = "opened"
          /\ io' = [io EXCEPT !.sinkLock = IF @ = q THEN Free ELSE @,
                              !.pc[q] = IF io.version = "old" THEN "returning" ELSE "idle"]
    /\ OthersUnchanged

\* Reopen of the older Eventer returns: the deferred e.l.Unlock()
ReopenEnd ==
    /\ \E q \in Reopeners :
          /\ io.pc[q] = "returning"
          /\ io' = [io EXCEPT !.l = IF @ = q THEN Free ELSE @,
                              !.pc[q] = "idle"]
    /\ OthersUnchanged

NextReopen ==
    \/ SendBegin
    \/ SinkProcessLock
    \/ SinkWrite
    \/ SinkProcessUnlock
    \/ ReopenBegin
    \/ SinkReopenLock
    \/ SinkReopenClose
    \/ SinkReopenOpen
    \/ SinkReopenUnlock
    \/ ReopenEnd

SpecReopen == InitReopen /\ [][NextReopen]_vars

\* the places (file, position) holding piece k of record r
PlacesOf(r, k) ==
    {<<i, j>> \in UNION {{<<a, b>> : b \in 1..Len(io.files[a])} : a \in 1..Len(io.files)} :
        io.files[i][j] = <<r, k>>}

\* record r is being written: its sender is inside the sink's Process
InFlight(r) == \E p \in Senders : io.cur[p] = r /\ io.pc[p] = "write"

(***************************************************************************)
(* C19: whatever the interleaving of Reopen calls and sends, no record is  *)
(* truncated or torn: every record whose write has started has its pieces  *)
(* written once, in order and next to each other in one file, the last     *)
(* pieces missing only while the record is still being written; and every  *)
(* record whose send has returned is in a file completely, exactly once.   *)
(***************************************************************************)
C19_ReopenKeepsRecordsWhole ==
    /\ \A i \in 1..Len(io.files) : \A j \in 1..Len(io.files[i]) :
          LET r == io.files[i][j][1]
              k == io.files[i][j][2]
          IN  /\ k > 1 => (j > 1 /\ io.files[i][j - 1] = <<r, k - 1>>)
              /\ k < Parts =>
                    \/ (j < Len(io.files[i]) /\ io.files[i][j + 1] = <<r, k + 1>>)
                    \/ (j = Len(io.files[i]) /\ InFlight(r))
    /\ \A r \in io.started : Cardinality(PlacesOf(r, 1)) = 1
    /\ \A r \in io.sent : \A k \in 1..Parts : Cardinality(PlacesOf(r, k)) = 1

\* a record that was in flight when a Reopen began has been sent, and a
\* Reopen has given the sink a new file since the run began
C19_Witness ==
    /\ io.sent \cap io.overlap # {}
    /\ Len(io.files) > 1
    /\ io.f # Closed


(***************************************************************************)
(* The singleton under concurrent calls.  Initers call InitSysEventer,     *)
(* Readers call SysEventer.  sysEventerLock is a reader/writer lock: run   *)
(* holds its writer (NoHolder when none) and the set of its readers.       *)
(* InitSysEventer checks its arguments and builds or takes its Eventer e,  *)
(* then takes the write lock, assigns sysEventer and releases the lock on  *)
(* return; SysEventer takes the read lock, reads sysEventer and releases   *)
(* the lock on return.  run.bare collects the goroutines that touched      *)
(* sysEventer without holding the lock their access needs, run.installed   *)
(* the references assigned to sysEventer, run.lastLocker the goroutine     *)
(* that took the write lock last.                                          *)
(***************************************************************************)
MaxInits == 2       \* concurrent InitSysEventer calls
MaxReads == 2       \* concurrent SysEventer calls

Initers == 1..MaxInits
Readers == (MaxInits + 1)..(MaxInits + MaxReads)
NoHolder == 0

InitSysConc ==
    /\ input = NoInput
    /\ result = NoResult
    /\ eventer = NilEventer
    /\ oldEventer = NilEventer
    /\ call = NoCall
    /\ heap = <<>>
    /\ sysEventer = nilRef
    /\ captured = NothingCaptured
    /\ lastInstalled = nilRef
    /\ gate = NoGate
    /\ io = NoIo
    /\ run = [nil |-> FALSE,
              pc |-> [p \in Initers \cup Readers |-> "call"],
              e |-> [p \in Initers |-> nilRef],
              ret |-> [p \in Initers \cup Readers |-> "none"],
              writer |-> NoHolder, readers |-> {}, lastLocker |-> NoHolder,
              installed |-> {}, bare |-> {}]

SysOthersUnchanged ==
    UNCHANGED <<input, result, eventer, oldEventer, call, captured, lastInstalled, gate, io>>

\* InitSysEventer up to the lock: the argument checks, and NewEventer when
\* a configuration was given; an error returns from here
SysInitBegin ==
    /\ \E p \in Initers :
          /\ run.pc[p] = "call"
          /\ \E log \in BOOLEAN, withEventer \in 0..Len(heap),
                withEventerConfig \in SysConfigs \cup {NilConfig}, failAt \in 0..1 :
                \E r \in {InitSysEventer(heap, sysEventer, log, TRUE,
                                         withEventer, withEventerConfig, failAt)} :
                   /\ heap' = r.heap
                   /\ run' = IF r.err # NoErr
                             THEN [run EXCEPT !.pc[p] = "done", !.ret[p] = r.err]
                             ELSE [run EXCEPT !.pc[p] = "lock", !.e[p] = r.e]
    /\ UNCHANGED sysEventer
    /\ SysOthersUnchanged

\* InitSysEventer going on to the assignment without sysEventerLock
SysLockSkipped ==
    /\ \E p \in Initers :
          /\ run.pc[p] = "lock"
          /\ run' = [run EXCEPT !.pc[p] = "assign"]
    /\ UNCHANGED <<heap, sysEventer>>
    /\ SysOthersUnchanged

\* sysEventerLock.Lock(): waits until no writer and no reader holds the lock
SysLock ==
    /\ \E p \in Initers :
          /\ run.pc[p] = "lock"
          /\ run.writer = NoHolder
          /\ run.readers = {}
          /\ run' = [run EXCEPT !.pc[p] = "assign", !.writer = p, !.lastLocker = p]
    /\ UNCHANGED <<heap, sysEventer>>
    /\ SysOthersUnchanged

\* sysEventer = e
SysAssign ==
    /\ \E p \in Initers :
          /\ run.pc[p] = "assign"
          /\ sysEventer' = run.e[p]
          /\ run' = [run EXCEPT !.pc[p] = "unlock",
                                !.installed = @ \cup {run.e[p]},
                                !.bare = IF run.writer = p THEN @ ELSE @ \cup {p}]
    /\ UNCHANGED heap
    /\ SysOthersUnchanged

\* the deferred sysEventerLock.Unlock(), and return nil
SysUnlock ==
    /\ \E p \in Initers :
          /\ run.pc[p] = "unlock"
          /\ run' = [run EXCEPT !.pc[p] = "done", !.ret[p] = NoErr,
                                !.writer = IF @ = p THEN NoHolder ELSE @]
    /\ UNCHANGED <<heap, sysEventer>>
    /\ SysOthersUnchanged

\* sysEventerLock.RLock(): waits until no writer holds the lock
SysRLock ==
    /\ \E q \in Readers :
          /\ run.pc[q] = "call"
          /\ run.writer = NoHolder
          /\ run' = [run EXCEPT !.pc[q] = "read", !.readers = @ \cup {q}]
    /\ UNCHANGED <<heap, sysEventer>>
    /\ SysOthersUnchanged

\* the operand of return is evaluated: sysEventer is read
SysRead ==
    /\ \E q \in Readers :
          /\ run.pc[q] = "read"
          /\ run' = [run EXCEPT !.pc[q] = "runlock", !.ret[q] = SysEventer(sysEventer),
                                !.bare = IF q \in run.readers THEN @ ELSE @ \cup {q}]
    /\ UNCHANGED <<heap, sysEventer>>
    /\ SysOthersUnchanged

\* the deferred sysEventerLock.RUnlock(), and the return of the value read
SysRUnlock ==
    /\ \E q \in Readers :
          /\ run.pc[q] = "runlock"
          /\ run' = [run EXCEPT !.pc[q] = "done", !.readers = @ \ {q}]
    /\ UNCHANGED <<heap, sysEventer>>
    /\ SysOthersUnchanged

NextSysConc ==
    \/ SysInitBegin
    \/ SysLock
    \/ SysAssign
    \/ SysUnlock
    \/ SysRLock
    \/ SysRead
    \/ SysRUnlock

SpecSysConc == InitSysConc /\ [][NextSysConc]_vars

\* the goroutines between taking and releasing the write (the read) lock
Writing == {p \in Initers : run.pc[p] \in {"assign", "unlock"}}
Reading == {q \in Readers : run.pc[q] \in {"read", "runlock"}}

\* the Eventers NewEventer builds completely from the configurations given
CompleteEventers == {NewEventer(TRUE, TRUE, c, 0).e : c \in SysConfigs} \ {NilEventer}

(***************************************************************************)
(* C21: under every interleaving of InitSysEventer and SysEventer calls,   *)
(* sysEventer is assigned only by a goroutine holding the write lock and   *)
(* read only by one holding the read lock; no goroutine is in its read     *)
(* section while another is in its write section, and no two are in their  *)
(* write sections; a value SysEventer returns is nil or a reference some   *)
(* InitSysEventer call assigned, to a completely constructed Eventer; and  *)
(* once the goroutine that took the write lock last has assigned,          *)
(* sysEventer is the Eventer of that call, whichever call built its        *)
(* Eventer last.                                                           *)
(***************************************************************************)
C21_SingletonUnderLock ==
    /\ run.bare = {}
    /\ ~(Writing # {} /\ Reading # {})
    /\ Cardinality(Writing) <= 1
    /\ \A q \in Readers :
          run.pc[q] \in {"runlock", "done"} =>
             \/ run.ret[q] = nilRef
             \/ /\ run.ret[q] \in run.installed
                /\ run.ret[q] \in 1..Len(heap)
                /\ heap[run.ret[q]] \in CompleteEventers
    /\ (run.lastLocker # NoHolder /\ run.pc[run.lastLocker] \in {"unlock", "done"}) =>
          sysEventer = run.e[run.lastLocker]

\* all calls have returned; two InitSysEventer calls each built an Eventer
\* and the one that built first took the write lock last, so that its
\* Eventer is installed; one SysEventer call returned nil and another the
\* Eventer of the other InitSysEventer call
C21_Witness ==
    /\ \A p \in Initers \cup Readers : run.pc[p] = "done"
    /\ \E p, p2 \in Initers :
          /\ p # p2
          /\ run.ret[p] = NoErr /\ run.ret[p2] = NoErr
          /\ run.lastLocker = p
          /\ run.e[p] < run.e[p2]
          /\ heap[run.e[p]] # heap[run.e[p2]]
          /\ sysEventer = run.e[p]
          /\ \E q, q2 \in Readers : run.ret[q] = nilRef /\ run.ret[q2] = run.e[p2]


(***************************************************************************)
(* The flags of the older Eventer under concurrent calls.  Setters call    *)
(* SetAuditEnabled or SetInfoEnabled, which take the mutex e.l, assign the *)
(* flag and release the mutex on return; Callers call Audit or Info, which *)
(* read their flag and, in a later step, send; a setter may run between    *)
(* the two.  run.l is the holder of e.l,                                   *)
(* run.bare collects the goroutines that touched a flag without holding    *)
(* e.l.  A read made while a setter is about to assign the same flag is    *)
(* not ordered with that assignment: it yields the flag's value before or  *)
(* after it.                                                               *)
(***************************************************************************)
MaxSetters == 2     \* concurrent SetAuditEnabled / SetInfoEnabled calls
MaxCallers == 2     \* concurrent Audit / Info calls

Setters == 1..MaxSetters
Callers == (MaxSetters + 1)..(MaxSetters + MaxCallers)

FlagConfigs ==
    [AuditDelivery : {BestEffort}, InfoDelivery : {BestEffort},
     AuditEnabled : BOOLEAN, InfoEnabled : BOOLEAN, Sinks : {<<>>}]

InitFlags ==
    /\ input = NoInput
    /\ result = NoResult
    /\ eventer = NilEventer
    /\ oldEventer \in {OldNewEventer(TRUE, c, 0).e : c \in FlagConfigs}
    /\ call = NoCall
    /\ heap = <<>>
    /\ sysEventer = nilRef
    /\ captured = NothingCaptured
    /\ lastInstalled = nilRef
    /\ gate = NoGate
    /\ io = NoIo
    /\ run = [nil |-> FALSE,
              pc |-> [p \in Setters \cup Callers |-> "call"],
              flag |-> [p \in Setters \cup Callers |-> "none"],
              enabled |-> [p \in Setters |-> FALSE],
              ret |-> [p \in Callers |-> "none"],
              sends |-> [p \in Callers |-> <<>>],
              l |-> NoHolder, bare |-> {}]

FlagOthersUnchanged ==
    UNCHANGED <<input, result, eventer, call, heap, sysEventer, captured, lastInstalled,
                gate, io>>

\* SetAuditEnabled(enabled) or SetInfoEnabled(enabled) is called and takes e.l
SetLock ==
    /\ \E p \in Setters, flag \in {"AuditEnabled", "InfoEnabled"}, enabled \in BOOLEAN :
          /\ run.pc[p] = "call"
          /\ run.l = NoHolder
          /\ run' = [run EXCEPT !.pc[p] = "write", !.flag[p] = flag, !.enabled[p] = enabled,
                                !.l = p]
    /\ UNCHANGED oldEventer
    /\ FlagOthersUnchanged

\* e.conf.AuditEnabled = enabled, or e.conf.InfoEnabled = enabled
SetWrite ==
    /\ \E p \in Setters :
          /\ run.pc[p] = "write"
          /\ oldEventer' = IF run.flag[p] = "AuditEnabled"
                           THEN SetAuditEnabled(oldEventer, run.enabled[p])
                           ELSE SetInfoEnabled(oldEventer, run.enabled[p])
          /\ run' = [run EXCEPT !.pc[p] = "unlock",
                                !.bare = IF run.l = p THEN @ ELSE @ \cup {p}]
    /\ FlagOthersUnchanged

\* the deferred e.l.Unlock(), and the return
SetUnlock ==
    /\ \E p \in Setters :
          /\ run.pc[p] = "unlock"
          /\ run' = [run EXCEPT !.pc[p] = "done", !.flag[p] = "none", !.enabled[p] = FALSE,
                                !.l = NoHolder]
    /\ UNCHANGED oldEventer
    /\ FlagOthersUnchanged

\* Audit or Info is called
FlagCallBegin ==
    /\ \E q \in Callers, flag \in {"AuditEnabled", "InfoEnabled"} :
          /\ run.pc[q] = "call"
          /\ run' = [run EXCEPT !.pc[q] = "read", !.flag[q] = flag]
    /\ UNCHANGED oldEventer
    /\ FlagOthersUnchanged

\* the values a read of the flag can yield: the one it holds, or the one a
\* setter is assigning at this moment
Readable(flag) ==
    {oldEventer.conf[flag]} \cup
    {run.enabled[p] : p \in {s \in Setters : run.pc[s] = "write" /\ run.flag[s] = flag}}

\* Audit or Info reads its flag, without e.l: on false it returns nil, on
\* true it goes on to broker.Send
FlagRead ==
    /\ \E q \in Callers :
          /\ run.pc[q] = "read"
          /\ \E seen \in Readable(run.flag[q]) :
                run' = IF seen
                       THEN [run EXCEPT !.pc[q] = "send",
                                        !.bare = IF run.l = q THEN @ ELSE @ \cup {q}]
                       ELSE [run EXCEPT !.pc[q] = "done", !.ret[q] = NoErr,
                                        !.bare = IF run.l = q THEN @ ELSE @ \cup {q}]
    /\ UNCHANGED oldEventer
    /\ FlagOthersUnchanged

\* Audit or Info, having read true, calls broker.Send and returns, whatever
\* the flag has become in the meantime
FlagSend ==
    /\ \E q \in Callers :
          /\ run.pc[q] = "send"
          /\ \E r \in {IF run.flag[q] = "AuditEnabled"
                        THEN Audit(SetAuditEnabled(oldEventer, TRUE), SomeEvent, {})
                        ELSE Info(SetInfoEnabled(oldEventer, TRUE), SomeEvent, {})} :
                run' = [run EXCEPT !.pc[q] = "done", !.ret[q] = r.ret, !.sends[q] = r.sends]
    /\ UNCHANGED oldEventer
    /\ FlagOthersUnchanged

NextFlags ==
    \/ SetLock
    \/ SetWrite
    \/ SetUnlock
    \/ FlagCallBegin
    \/ FlagRead
    \/ FlagSend

SpecFlags == InitFlags /\ [][NextFlags]_vars

(***************************************************************************)
(* C27: in the older Eventer every access to AuditEnabled and InfoEnabled  *)
(* is made by a goroutine holding e.l, and at no moment is a setter about  *)
(* to assign a flag while an Audit or Info call is about to read the same  *)
(* flag.                                                                   *)
(***************************************************************************)
C27_FlagsUnderMutex ==
    /\ run.bare = {}
    /\ ~\E p \in Setters, q \in Callers :
          /\ run.pc[p] = "write"
          /\ run.pc[q] = "read"
          /\ run.flag[p] = run.flag[q]

====
